---- MODULE Spec2Model ----
(***************************************************************************)
(* The runtime context tracker of sdgscript (packages/runtime/src/index.ts):*)
(* the ResourceTracker registry, its listener dispatch, the scoped helper  *)
(* withSDGContext, the broadcast trackResource and the fetch wrapper.      *)
(*                                                                         *)
(* A tracker operation runs to completion on one thread, listeners         *)
(* included, so each operation is an operator from tracker state to tracker*)
(* state and each action of the specification is one synchronous turn.     *)
(* Energy is counted in units of 1e-6 kWh and emissions in units of        *)
(* 1e-6 gCO2, so the arithmetic of the code is exact integer arithmetic    *)
(* here; a field of a Partial<ResourceMetrics> that is absent is written 0 *)
(* (the code tests every field for truthiness before it uses it).          *)
(*                                                                         *)
(* trace, started, ended, credited, lastOp and ret record what the calls   *)
(* did and were given; the code keeps none of them and reads none of them. *)
(* Listeners are the callers' code: "observer" returns, "thrower" throws,  *)
(* "starter" starts a context and "ender" ends another context when they   *)
(* receive resource_tracked; "keeper" keeps the totalMetrics object of the *)
(* first resource_tracked event it receives; "finisher" calls endContext   *)
(* for the id of every carbon_budget_exceeded and context_ended event it   *)
(* receives, the call raising a RangeError once MaxStack calls are nested; *)
(* "latecomer" calls trackResource for the id of every context_ended event *)
(* it receives; "quitter" removes itself from the listeners when it        *)
(* receives carbon_budget_exceeded.                                        *)
(*                                                                         *)
(* The static side (core/src/parser.ts, the ResourceAnalyzer and the score *)
(* of the SDGCompiler) is a pipeline of pure functions: annotations are    *)
(* parsed from documentation blocks, metrics estimated from a function     *)
(* body, violations detected and a score calculated. Its operators carry   *)
(* the names of the methods; static estimates are counted in units of      *)
(* 1e-4 kWh and 1e-4 gCO2, again exact integers. A function body is the    *)
(* sequence of its descendant nodes in the order forEachDescendant visits  *)
(* them (depth first, parents before children), each with its depth.       *)
(***************************************************************************)
EXTENDS Integers, Sequences, FiniteSets, TLC

VARIABLES
  activeContexts,  \* Map<string, SDGContext>: sequence of [id, context] in insertion order
  metrics,         \* Map<string, ResourceMetrics>: function on the ids it holds
  startTime,       \* the startTime field of each context descriptor object
  listeners,       \* Set<listener>: entries in insertion order, deleted ones marked
  now,             \* the clock read by Date.now() and performance.now()
  pc,              \* withSDGContext invocations: "idle", "running" (at the await), "done"
  hstart,          \* withSDGContext's local startTime
  result,          \* how each withSDGContext promise settled
  fetchStart,      \* sdgFetch's local startTime while the wrapped fetch is pending
  trace,           \* the events emitted by the last turn, each with its deliveries
  started,         \* ids for which context_started was ever emitted
  ended,           \* ids for which context_ended was ever emitted
  credited,        \* per id, the partials handed to trackResource since its start
  lastOp,          \* the call made by the last turn
  ret,             \* what the last endContext of the last turn returned (<<>> is null)
  left,            \* number of turns the environment may still take
  held,            \* the totalMetrics object a "keeper" listener kept: <<>> or one entry
  jsDocs,          \* the documentation blocks of the declaration under analysis
  node,            \* the body of the declaration under analysis
  annotations,     \* what parseSDGAnnotations returned (sdgAnnotations)
  estimatedMetrics,\* what analyzeFunction returned
  violations,      \* what detectViolations returned
  score,           \* what calculateScore returned
  stage,           \* how far the analysis of the declaration has got
  analysed,        \* the first analysis made and the last one made after it, each
                   \* [node, metrics, others]
  analyzer,        \* which ResourceAnalyzer instance is in use
  sourceFile,      \* the declarations of the source file under analysis, in source order
  results          \* what analyzeSourceFile returned

staticVars == <<jsDocs, node, annotations, estimatedMetrics, violations, score, stage,
                analysed, analyzer, sourceFile, results>>

trackerVars == <<activeContexts, metrics, startTime, listeners, now, pc, hstart, result,
                 fetchStart, trace, started, ended, credited, lastOp, ret, left, held>>

vars == <<trackerVars, staticVars>>

-----------------------------------------------------------------------------
(* Bounds *)

MaxOps == 3
MaxTime == 1
MaxListeners == 2
MaxOpsReentrant == 4
MaxOpsSnapshot == 4
MaxOpsNested == 4
MaxOpsLate == 4
MaxOpsListeners == 5
MaxStack == 2

-----------------------------------------------------------------------------
(* Values *)

Undefined == -1

ExplicitIds == {"a", "b"}
Helpers == {"h1", "h2"}
Ids == ExplicitIds \cup Helpers

\* The k-th invocation of withSDGContext generates the k-th id.
HelperRank(p) == IF p = "h1" THEN 1 ELSE 2

Objs == {"o1", "o2"}

\* A descriptor that declares a carbonBudget of 0.
ZeroBudgetObj == "o0"

CarbonBudgetOf(o) == IF o = "o2" THEN 2 ELSE IF o = ZeroBudgetObj THEN 0 ELSE Undefined

EmissionFactor == 500
HelperEnergyPerMs == 1
FetchEnergyPerMs == 10

ZeroMetrics ==
  [energy |-> 0, emissions |-> 0, memory |-> 0, networkCalls |-> 0,
   ioOperations |-> 0, computeComplexity |-> 1]

NoUsage ==
  [energy |-> 0, emissions |-> 0, memory |-> 0, networkCalls |-> 0,
   ioOperations |-> 0, computeComplexity |-> 0]

Usages ==
  { [NoUsage EXCEPT !.energy = 2, !.memory = 2],
    [NoUsage EXCEPT !.energy = 3, !.emissions = 1500, !.memory = 1],
    [NoUsage EXCEPT !.networkCalls = 1, !.ioOperations = 1] }

ConsistentUsages == {u \in Usages : u.emissions = u.energy * EmissionFactor}

HeapDeltas == {0, 1}

PassiveListeners == {"observer", "thrower"}
ReentrantListeners == {"starter", "ender"}

Truthy(x) == x # 0 /\ x # Undefined

OrZero(x) == IF Truthy(x) THEN x ELSE 0

Max(x, y) == IF x >= y THEN x ELSE y

-----------------------------------------------------------------------------
(* The tracker state an operation works on *)

Cur ==
  [activeContexts |-> activeContexts, metrics |-> metrics, startTime |-> startTime,
   listeners |-> listeners, now |-> now, trace |-> <<>>, started |-> started,
   ended |-> ended, credited |-> credited, exc |-> FALSE, ret |-> <<>>,
   held |-> held, depth |-> 0]

MapKeys(m) == {m[i].id : i \in 1..Len(m)}

MapIds(m) == [i \in 1..Len(m) |-> m[i].id]

MapGet(m, id) == (CHOOSE i \in 1..Len(m) : m[i].id = id)

MapSet(m, id, ctx) ==
  IF id \in MapKeys(m)
  THEN [m EXCEPT ![MapGet(m, id)] = [id |-> id, context |-> ctx]]
  ELSE Append(m, [id |-> id, context |-> ctx])

MapDelete(m, id) == SelectSeq(m, LAMBDA e : e.id # id)

FnPut(f, k, v) == [x \in DOMAIN f \cup {k} |-> IF x = k THEN v ELSE f[x]]

FnDelete(f, k) == [x \in DOMAIN f \ {k} |-> f[x]]

LiveListeners(ls) ==
  LET live == SelectSeq(ls, LAMBDA e : e.live)
  IN [i \in 1..Len(live) |-> live[i].fn]

SetAdd(ls, l) ==
  IF \E i \in 1..Len(ls) : ls[i].live /\ ls[i].fn = l
  THEN ls
  ELSE Append(ls, [fn |-> l, live |-> TRUE])

SetDelete(ls, l) ==
  [i \in 1..Len(ls) |-> IF ls[i].fn = l THEN [ls[i] EXCEPT !.live = FALSE] ELSE ls[i]]

Compact(ls) == SelectSeq(ls, LAMBDA e : e.live)

Event(type, id, ctx, m, u, total, dur) ==
  [type |-> type, contextId |-> id, context |-> ctx, metrics |-> m, usage |-> u,
   totalMetrics |-> total, totalObject |-> "", duration |-> dur,
   regs |-> <<>>, got |-> <<>>]

\* { ...metrics }: an object of its own with the fields of the accumulator m of the
\* context. object is the id whose accumulator the object is, "" for none.
ObjectSpread_SameObject(contextId, m) == [object |-> contextId, fields |-> m]

ObjectSpread(contextId, m) == [object |-> "", fields |-> m]

\* new Map(entries): a map of its own with the entries; registry says whether the
\* map is the registry itself.
NewMap(entries) == [registry |-> FALSE, entries |-> entries]

\* What a holder h of a totalMetrics object sees after the accumulator of the context
\* has been assigned the fields m: the assignments are made on the accumulator object.
WriteThrough(h, contextId, m) ==
  IF h # <<>> /\ h[1].object = contextId
  THEN <<[h[1] EXCEPT !.totalMetrics = <<m>>]>>
  ELSE h

\* What a holder h holds after the context has been given a new accumulator object.
Detach(h, contextId) ==
  IF h # <<>> /\ h[1].object = contextId THEN <<[h[1] EXCEPT !.object = ""]>> ELSE h

-----------------------------------------------------------------------------
(* ResourceTracker *)

\* The record of what a context was handed: the partial u handed after the partials c.
Credit(c, u) ==
  [energy |-> c.energy + u.energy,
   emissions |-> c.emissions + u.emissions,
   memory |-> IF u.memory > c.memory THEN u.memory ELSE c.memory,
   networkCalls |-> c.networkCalls + u.networkCalls,
   ioOperations |-> c.ioOperations + u.ioOperations,
   computeComplexity |-> 0]

RECURSIVE Dispatch(_, _, _)
RECURSIVE Emit(_, _)
RECURSIVE Invoke(_, _, _)
RECURSIVE TrackerStartContext(_, _, _)
RECURSIVE TrackerEndContext(_, _)
RECURSIVE TrackerTrackResource(_, _, _, _)

\* What a listener does with an event: [s |-> the state it leaves, threw |-> it threw].
Invoke(fn, s, ev) ==
  CASE fn = "thrower" -> [s |-> s, threw |-> TRUE]
    [] fn = "starter" ->
         LET free == ExplicitIds \ MapKeys(s.activeContexts)
         IN IF ev.type = "resource_tracked" /\ free # {}
            THEN [s |-> TrackerStartContext(s, CHOOSE id \in free : TRUE, "o1"),
                  threw |-> FALSE]
            ELSE [s |-> s, threw |-> FALSE]
    [] fn = "ender" ->
         LET others == MapKeys(s.activeContexts) \ {ev.contextId}
         IN IF ev.type = "resource_tracked" /\ others # {}
            THEN [s |-> TrackerEndContext(s, CHOOSE id \in others : TRUE),
                  threw |-> FALSE]
            ELSE [s |-> s, threw |-> FALSE]
    [] fn = "finisher" ->
         IF ev.type \in {"carbon_budget_exceeded", "context_ended"}
         THEN IF s.depth >= MaxStack
              THEN [s |-> s, threw |-> TRUE]
              ELSE [s |-> [TrackerEndContext([s EXCEPT !.depth = @ + 1], ev.contextId)
                             EXCEPT !.depth = s.depth],
                    threw |-> FALSE]
         ELSE [s |-> s, threw |-> FALSE]
    [] fn = "latecomer" ->
         IF ev.type = "context_ended"
         THEN [s |-> TrackerTrackResource(s, ev.contextId, "late",
                                          [NoUsage EXCEPT !.energy = 2]),
               threw |-> FALSE]
         ELSE [s |-> s, threw |-> FALSE]
    [] fn = "quitter" ->
         IF ev.type = "carbon_budget_exceeded"
         THEN [s |-> [s EXCEPT !.listeners = SetDelete(@, "quitter")], threw |-> FALSE]
         ELSE [s |-> s, threw |-> FALSE]
    [] fn = "keeper" ->
         IF ev.type = "resource_tracked" /\ s.held = <<>>
         THEN [s |-> [s EXCEPT !.held = <<[contextId |-> ev.contextId,
                                           totalMetrics |-> ev.totalMetrics,
                                           object |-> ev.totalObject]>>],
               threw |-> FALSE]
         ELSE [s |-> s, threw |-> FALSE]
    [] OTHER -> [s |-> s, threw |-> FALSE]

\* emit without the try/catch: the first listener that throws ends the iteration and
\* the exception leaves emit.
Dispatch_NoCatch(s, k, i) ==
  IF i > Len(s.listeners) THEN s
  ELSE IF ~s.listeners[i].live THEN Dispatch(s, k, i + 1)
  ELSE LET fn == s.listeners[i].fn
           s1 == [s EXCEPT !.trace[k].got = Append(@, fn)]
           r  == Invoke(fn, s1, s1.trace[k])
       IN IF r.threw \/ r.s.exc THEN [r.s EXCEPT !.exc = TRUE]
          ELSE Dispatch(r.s, k, i + 1)

\* emit that still calls a listener that was deleted from the set during the turn.
Dispatch_Deleted(s, k, i) ==
  IF i > Len(s.listeners) THEN s
  ELSE LET fn == s.listeners[i].fn
           s1 == [s EXCEPT !.trace[k].got = Append(@, fn)]
           r  == Invoke(fn, s1, s1.trace[k])
       IN Dispatch([r.s EXCEPT !.exc = FALSE], k, i + 1)

\* listeners.forEach(listener => { try { listener(event) } catch { console.warn } }),
\* from entry i on, for the event at position k of the trace. Whatever the listener
\* threw, or let escape from a call it made, is caught and the iteration goes on.
Dispatch(s, k, i) ==
  IF i > Len(s.listeners) THEN s
  ELSE IF ~s.listeners[i].live THEN Dispatch(s, k, i + 1)
  ELSE LET fn == s.listeners[i].fn
           s1 == [s EXCEPT !.trace[k].got = Append(@, fn)]
           r  == Invoke(fn, s1, s1.trace[k])
       IN Dispatch([r.s EXCEPT !.exc = FALSE], k, i + 1)

Emit(s, ev) ==
  LET s1 == [s EXCEPT
               !.trace = Append(@, [ev EXCEPT !.regs = LiveListeners(s.listeners)]),
               !.started = IF ev.type = "context_started" THEN @ \cup {ev.contextId} ELSE @,
               !.ended = IF ev.type = "context_ended" THEN @ \cup {ev.contextId} ELSE @]
  IN Dispatch(s1, Len(s1.trace), 1)

\* startContext that keeps the accumulator of an id that is already active.
TrackerStartContext_KeepMetrics(s, id, context) ==
  LET s1 == [s EXCEPT
               !.startTime[context] = s.now,
               !.activeContexts = MapSet(@, id, context),
               !.metrics = IF id \in DOMAIN @ THEN @ ELSE FnPut(@, id, ZeroMetrics),
               !.credited[id] = NoUsage,
               !.held = Detach(@, id)]
  IN Emit(s1, Event("context_started", id, context, <<>>, <<>>, <<>>, Undefined))

\* startContext that registers the context and emits nothing.
TrackerStartContext_NoEmit(s, id, context) ==
  [s EXCEPT
     !.startTime[context] = s.now,
     !.activeContexts = MapSet(@, id, context),
     !.metrics = FnPut(@, id, ZeroMetrics),
     !.credited[id] = NoUsage,
     !.held = Detach(@, id)]

TrackerStartContext(s, id, context) ==
  LET s1 == [s EXCEPT
               !.startTime[context] = s.now,
               !.activeContexts = MapSet(@, id, context),
               !.metrics = FnPut(@, id, ZeroMetrics),
               !.credited[id] = NoUsage,
               !.held = Detach(@, id)]
  IN Emit(s1, Event("context_started", id, context, <<>>, <<>>, <<>>, Undefined))

\* endContext that reports a budget as exceeded as soon as it is reached.
TrackerEndContext_AtLeast(s, id) ==
  IF id \notin MapKeys(s.activeContexts) \/ id \notin DOMAIN s.metrics
  THEN [s EXCEPT !.ret = <<>>]
  ELSE
    LET context  == s.activeContexts[MapGet(s.activeContexts, id)].context
        m        == s.metrics[id]
        duration == s.now - OrZero(s.startTime[context])
        s1 == IF Truthy(CarbonBudgetOf(context)) /\ Truthy(m.energy)
                 /\ m.energy >= CarbonBudgetOf(context)
              THEN Emit(s, Event("carbon_budget_exceeded", id, context, <<m>>, <<>>, <<>>,
                                 Undefined))
              ELSE s
        s2 == Emit(s1, Event("context_ended", id, context, <<m>>, <<>>, <<>>, duration))
    IN [s2 EXCEPT
          !.activeContexts = MapDelete(@, id),
          !.metrics = FnDelete(@, id),
          !.credited[id] = NoUsage,
          !.ret = <<m>>]

\* endContext that removes the context and leaves its accumulator in the map.
TrackerEndContext_KeepAccumulator(s, id) ==
  IF id \notin MapKeys(s.activeContexts) \/ id \notin DOMAIN s.metrics
  THEN [s EXCEPT !.ret = <<>>]
  ELSE
    LET context  == s.activeContexts[MapGet(s.activeContexts, id)].context
        m        == s.metrics[id]
        duration == s.now - OrZero(s.startTime[context])
        s1 == IF Truthy(CarbonBudgetOf(context)) /\ Truthy(m.energy)
                 /\ m.energy > CarbonBudgetOf(context)
              THEN Emit(s, Event("carbon_budget_exceeded", id, context, <<m>>, <<>>, <<>>,
                                 Undefined))
              ELSE s
        s2 == Emit(s1, Event("context_ended", id, context, <<m>>, <<>>, <<>>, duration))
    IN [s2 EXCEPT
          !.activeContexts = MapDelete(@, id),
          !.credited[id] = NoUsage,
          !.ret = <<m>>]

TrackerEndContext(s, id) ==
  IF id \notin MapKeys(s.activeContexts) \/ id \notin DOMAIN s.metrics
  THEN [s EXCEPT !.ret = <<>>]
  ELSE
    LET context  == s.activeContexts[MapGet(s.activeContexts, id)].context
        m        == s.metrics[id]
        duration == s.now - OrZero(s.startTime[context])
        s1 == IF Truthy(CarbonBudgetOf(context)) /\ Truthy(m.energy)
                 /\ m.energy > CarbonBudgetOf(context)
              THEN Emit(s, Event("carbon_budget_exceeded", id, context, <<m>>, <<>>, <<>>,
                                 Undefined))
              ELSE s
        s2 == IF s1.exc THEN s1
              ELSE Emit(s1, Event("context_ended", id, context,
                                  <<IF id \in DOMAIN s1.metrics THEN s1.metrics[id] ELSE m>>,
                                  <<>>, <<>>, duration))
    IN IF s2.exc THEN s2
       ELSE [s2 EXCEPT
               !.activeContexts = MapDelete(@, id),
               !.metrics = FnDelete(@, id),
               !.credited[id] = NoUsage,
               !.ret = <<IF id \in DOMAIN s2.metrics THEN s2.metrics[id] ELSE m>>]

\* trackResource that opens an accumulator for an id it does not know.
TrackerTrackResource_AutoCreate(s, contextId, resourceType, usage) ==
  LET m  == IF contextId \in DOMAIN s.metrics THEN s.metrics[contextId] ELSE ZeroMetrics
      m1 == [m EXCEPT
               !.energy = @ + usage.energy,
               !.emissions = @ + usage.emissions,
               !.memory = Max(@, usage.memory),
               !.networkCalls = @ + usage.networkCalls,
               !.ioOperations = @ + usage.ioOperations]
      s1 == [s EXCEPT !.metrics = FnPut(@, contextId, m1),
                      !.credited[contextId] = Credit(@, usage)]
  IN Emit(s1, Event("resource_tracked", contextId, "", <<>>, <<usage>>, <<m1>>, Undefined))

\* trackResource that adds memory up like the other fields.
TrackerTrackResource_SumMemory(s, contextId, resourceType, usage) ==
  IF contextId \notin DOMAIN s.metrics
  THEN s
  ELSE
    LET m  == s.metrics[contextId]
        m1 == [m EXCEPT
                 !.energy = @ + usage.energy,
                 !.emissions = @ + usage.emissions,
                 !.memory = @ + usage.memory,
                 !.networkCalls = @ + usage.networkCalls,
                 !.ioOperations = @ + usage.ioOperations]
        s1 == [s EXCEPT !.metrics[contextId] = m1,
                        !.credited[contextId] = Credit(@, usage)]
    IN Emit(s1, Event("resource_tracked", contextId, "", <<>>, <<usage>>, <<m1>>, Undefined))

\* trackResource that also takes the computeComplexity of the partial.
TrackerTrackResource_Complexity(s, contextId, resourceType, usage) ==
  IF contextId \notin DOMAIN s.metrics
  THEN s
  ELSE
    LET m  == s.metrics[contextId]
        m1 == [m EXCEPT
                 !.energy = @ + usage.energy,
                 !.emissions = @ + usage.emissions,
                 !.memory = Max(@, usage.memory),
                 !.networkCalls = @ + usage.networkCalls,
                 !.ioOperations = @ + usage.ioOperations,
                 !.computeComplexity = Max(@, usage.computeComplexity)]
        s1 == [s EXCEPT !.metrics[contextId] = m1,
                        !.credited[contextId] = Credit(@, usage)]
    IN Emit(s1, Event("resource_tracked", contextId, "", <<>>, <<usage>>, <<m1>>, Undefined))

TrackerTrackResource(s, contextId, resourceType, usage) ==
  IF contextId \notin DOMAIN s.metrics
  THEN s
  ELSE
    LET m  == s.metrics[contextId]
        m1 == [m EXCEPT
                 !.energy = IF Truthy(usage.energy) THEN OrZero(@) + usage.energy ELSE @,
                 !.emissions = IF Truthy(usage.emissions) THEN OrZero(@) + usage.emissions ELSE @,
                 !.memory = IF Truthy(usage.memory) THEN Max(OrZero(@), usage.memory) ELSE @,
                 !.networkCalls =
                   IF Truthy(usage.networkCalls) THEN OrZero(@) + usage.networkCalls ELSE @,
                 !.ioOperations =
                   IF Truthy(usage.ioOperations) THEN OrZero(@) + usage.ioOperations ELSE @]
        s1 == [s EXCEPT !.metrics[contextId] = m1,
                        !.credited[contextId] = Credit(@, usage),
                        !.held = WriteThrough(@, contextId, m1)]
        total == ObjectSpread(contextId, m1)
    IN Emit(s1, [Event("resource_tracked", contextId, "", <<>>, <<usage>>,
                       <<total.fields>>, Undefined)
                   EXCEPT !.totalObject = total.object])

GetActiveContexts(s) == NewMap(s.activeContexts)

GetCurrentMetrics(s, contextId) ==
  IF contextId \in DOMAIN s.metrics THEN <<s.metrics[contextId]>> ELSE <<>>

-----------------------------------------------------------------------------
(* The exported functions *)

RECURSIVE BroadcastFrom(_, _, _, _, _)

\* for (const [contextId] of activeContexts) tracker.trackResource(...), from entry i on
BroadcastFrom(s, snapshot, i, resourceType, usage) ==
  IF i > Len(snapshot) \/ s.exc THEN s
  ELSE BroadcastFrom(TrackerTrackResource(s, snapshot[i].id, resourceType, usage),
                     snapshot, i + 1, resourceType, usage)

\* A broadcast that charges only the context that was started last.
trackResource_LastOnly(s, resourceType, usage) ==
  LET snapshot == GetActiveContexts(s).entries
  IN BroadcastFrom(s, snapshot, Max(1, Len(snapshot)), resourceType, usage)

trackResource(s, resourceType, usage) ==
  BroadcastFrom(s, GetActiveContexts(s).entries, 1, resourceType, usage)

-----------------------------------------------------------------------------
(* One synchronous turn *)

Known(id) == id \in MapKeys(activeContexts)

Op(op, id, usage, outcome) ==
  [op |-> op, id |-> id, usage |-> usage, outcome |-> outcome,
   known |-> Known(id), raised |-> FALSE]

Commit(s, op) ==
  /\ left > 0
  /\ left' = left - 1
  /\ lastOp' = [op EXCEPT !.raised = s.exc]
  /\ ret' = s.ret
  /\ activeContexts' = s.activeContexts
  /\ metrics' = s.metrics
  /\ startTime' = s.startTime
  /\ listeners' = Compact(s.listeners)
  /\ trace' = s.trace
  /\ started' = s.started
  /\ ended' = s.ended
  /\ credited' = s.credited
  /\ held' = s.held
  /\ UNCHANGED <<now, staticVars>>

StartContext(id, o) ==
  /\ Commit(TrackerStartContext(Cur, id, o), Op("startContext", id, NoUsage, o))
  /\ UNCHANGED <<pc, hstart, result, fetchStart>>

EndContext(id) ==
  LET s == TrackerEndContext(Cur, id)
  IN /\ Commit(s, Op("endContext", id, NoUsage, IF s.ret = <<>> THEN "null" ELSE "metrics"))
     /\ UNCHANGED <<pc, hstart, result, fetchStart>>

TrackResource(id, usage) ==
  /\ Commit(TrackerTrackResource(Cur, id, "manual", usage), Op("trackResource", id, usage, ""))
  /\ UNCHANGED <<pc, hstart, result, fetchStart>>

Broadcast(usage) ==
  /\ Commit(trackResource(Cur, "manual", usage), Op("broadcast", "", usage, ""))
  /\ UNCHANGED <<pc, hstart, result, fetchStart>>

AddEventListener(l) ==
  /\ Len(LiveListeners(SetAdd(listeners, l))) <= MaxListeners
  /\ Commit([Cur EXCEPT !.listeners = SetAdd(@, l)], Op("addEventListener", l, NoUsage, ""))
  /\ UNCHANGED <<pc, hstart, result, fetchStart>>

RemoveEventListener(l) ==
  /\ Commit([Cur EXCEPT !.listeners = SetDelete(@, l)],
            Op("removeEventListener", l, NoUsage, ""))
  /\ UNCHANGED <<pc, hstart, result, fetchStart>>

\* A caller that takes the map getActiveContexts returns and deletes the id from it or
\* sets it in it.
MutateReturnedMap(id, delete) ==
  LET map == GetActiveContexts(Cur)
      entries == IF delete THEN MapDelete(map.entries, id)
                 ELSE MapSet(map.entries, id, "o1")
      s == IF map.registry THEN [Cur EXCEPT !.activeContexts = entries] ELSE Cur
  IN /\ Commit(s, Op(IF delete THEN "map.delete" ELSE "map.set", id, NoUsage, ""))
     /\ UNCHANGED <<pc, hstart, result, fetchStart>>

\* withSDGContext up to its await: startContext, then fn() is called; a fn that throws
\* synchronously goes straight to the finally block.
WithSDGContextEnter(p, o, throws) ==
  /\ pc[p] = "idle"
  /\ \A q \in Helpers : HelperRank(q) < HelperRank(p) => pc[q] # "idle"
  /\ LET s1 == TrackerStartContext(Cur, p, o)
         s2 == IF throws /\ ~s1.exc THEN TrackerEndContext(s1, p) ELSE s1
     IN /\ Commit([s2 EXCEPT !.exc = throws \/ s1.exc],
                  Op("withSDGContext", p, NoUsage, IF throws THEN "throw" ELSE "await"))
        /\ pc' = [pc EXCEPT ![p] = IF throws \/ s1.exc THEN "done" ELSE "running"]
        /\ hstart' = [hstart EXCEPT ![p] = IF throws \/ s1.exc THEN 0 ELSE now]
        /\ result' = [result EXCEPT ![p] = IF throws \/ s1.exc THEN "raised" ELSE @]
  /\ UNCHANGED fetchStart

\* withSDGContext with endContext at the end of the try block instead of in a finally.
WithSDGContextResume_NoFinally(p, fulfilled, memoryUsed) ==
  /\ pc[p] = "running"
  /\ LET duration == now - hstart[p]
         s1 == IF fulfilled
               THEN TrackerEndContext(
                      TrackerTrackResource(Cur, p, "execution",
                        [NoUsage EXCEPT !.memory = memoryUsed,
                                        !.energy = duration * HelperEnergyPerMs]), p)
               ELSE Cur
     IN /\ Commit([s1 EXCEPT !.exc = ~fulfilled],
                  Op("withSDGContext", p, NoUsage,
                     IF fulfilled THEN "fulfilled" ELSE "rejected"))
        /\ pc' = [pc EXCEPT ![p] = "done"]
        /\ hstart' = [hstart EXCEPT ![p] = 0]
        /\ result' = [result EXCEPT ![p] = IF fulfilled THEN "value" ELSE "raised"]
  /\ UNCHANGED fetchStart

\* withSDGContext after its await: the residual update on fulfilment, then the finally block.
WithSDGContextResume(p, fulfilled, memoryUsed) ==
  /\ pc[p] = "running"
  /\ LET duration == now - hstart[p]
         s1 == IF fulfilled
               THEN TrackerTrackResource(Cur, p, "execution",
                      [NoUsage EXCEPT !.memory = memoryUsed,
                                      !.energy = duration * HelperEnergyPerMs])
               ELSE Cur
         s2 == TrackerEndContext([s1 EXCEPT !.exc = FALSE], p)
     IN /\ Commit([s2 EXCEPT !.exc = ~fulfilled \/ s1.exc \/ s2.exc],
                  Op("withSDGContext", p, NoUsage,
                     IF fulfilled THEN "fulfilled" ELSE "rejected"))
        /\ pc' = [pc EXCEPT ![p] = "done"]
        /\ hstart' = [hstart EXCEPT ![p] = 0]
        /\ result' = [result EXCEPT ![p] =
                        IF fulfilled /\ ~s1.exc /\ ~s2.exc THEN "value" ELSE "raised"]
  /\ UNCHANGED fetchStart

\* The catch block of sdgFetch: the broadcast of a failed call.
FetchError(s, duration) ==
  trackResource(s, "network_error",
    [NoUsage EXCEPT !.networkCalls = 1, !.energy = duration * FetchEnergyPerMs])

\* The success path of sdgFetch: the broadcast of a completed call.
FetchSuccess(s, duration) ==
  trackResource(s, "network",
    [NoUsage EXCEPT !.networkCalls = 1,
                    !.energy = duration * FetchEnergyPerMs,
                    !.emissions = duration * FetchEnergyPerMs * EmissionFactor])

\* sdgFetch that rethrows the error of the wrapped fetch without a broadcast.
FetchSettled_NoErrorCharge(s, ok, duration) ==
  IF ok THEN FetchSuccess(s, duration) ELSE [s EXCEPT !.exc = TRUE]

\* The body of sdgFetch once the wrapped fetch has settled: the try block's broadcast,
\* the catch block's broadcast (also entered when the try block's broadcast raises),
\* and the rethrow.
FetchSettled(s, ok, duration) ==
  LET s1 == IF ok THEN FetchSuccess(s, duration) ELSE s
  IN IF ok /\ ~s1.exc THEN s1
     ELSE [FetchError([s1 EXCEPT !.exc = FALSE], duration) EXCEPT !.exc = TRUE]

\* sdgFetch up to its await; an originalFetch that throws synchronously is caught at once.
SdgFetchCall(throws) ==
  /\ fetchStart = Undefined
  /\ IF throws
     THEN /\ Commit(FetchSettled(Cur, FALSE, 0), Op("sdgFetch", "", NoUsage, "throw"))
          /\ UNCHANGED fetchStart
     ELSE /\ Commit(Cur, Op("sdgFetch", "", NoUsage, "await"))
          /\ fetchStart' = now
  /\ UNCHANGED <<pc, hstart, result>>

\* sdgFetch after its await.
SdgFetchSettle(ok) ==
  /\ fetchStart # Undefined
  /\ Commit(FetchSettled(Cur, ok, now - fetchStart),
            Op("sdgFetch", "", NoUsage, IF ok THEN "fulfilled" ELSE "rejected"))
  /\ fetchStart' = Undefined
  /\ UNCHANGED <<pc, hstart, result>>

Tick ==
  /\ now < MaxTime
  /\ now' = now + 1
  /\ UNCHANGED <<activeContexts, metrics, startTime, listeners, pc, hstart, result,
                 fetchStart, trace, started, ended, credited, lastOp, ret, left, held,
                 staticVars>>

\* No declaration is under analysis.
InitStatic ==
  /\ jsDocs = <<>>
  /\ node = <<>>
  /\ annotations = <<>>
  /\ estimatedMetrics = NoUsage
  /\ violations = <<>>
  /\ score = Undefined
  /\ stage = "idle"
  /\ analysed = <<>>
  /\ analyzer = 1
  /\ sourceFile = <<>>
  /\ results = <<>>

\* The tracker as constructed, with n turns to take.
InitTracker(n) ==
  /\ activeContexts = <<>>
  /\ metrics = <<>>
  /\ startTime = [o \in Objs \cup {ZeroBudgetObj} |-> Undefined]
  /\ listeners = <<>>
  /\ now = 0
  /\ pc = [p \in Helpers |-> "idle"]
  /\ hstart = [p \in Helpers |-> 0]
  /\ result = [p \in Helpers |-> "none"]
  /\ fetchStart = Undefined
  /\ trace = <<>>
  /\ started = {}
  /\ ended = {}
  /\ credited = [id \in Ids |-> NoUsage]
  /\ lastOp = [op |-> "", id |-> "", usage |-> NoUsage, outcome |-> "",
               known |-> FALSE, raised |-> FALSE]
  /\ ret = <<>>
  /\ left = n
  /\ held = <<>>

InitWith(n) == InitTracker(n) /\ InitStatic

Init == InitWith(MaxOps)

\* The calls the environment makes, with partials from U and listeners from L.
Calls(U, L) ==
  \/ \E id \in ExplicitIds, o \in Objs : StartContext(id, o)
  \/ \E id \in Ids : EndContext(id)
  \/ \E id \in Ids, u \in U : TrackResource(id, u)
  \/ \E u \in U : Broadcast(u)
  \/ \E p \in Helpers, o \in Objs, throws \in BOOLEAN : WithSDGContextEnter(p, o, throws)
  \/ \E p \in Helpers, fulfilled \in BOOLEAN, mem \in HeapDeltas :
       WithSDGContextResume(p, fulfilled, mem)
  \/ \E throws \in BOOLEAN : SdgFetchCall(throws)
  \/ \E ok \in BOOLEAN : SdgFetchSettle(ok)
  \/ \E l \in L : AddEventListener(l)
  \/ \E l \in L : RemoveEventListener(l)

\* Callers of every kind, listeners that observe or throw.
Next == Calls(Usages, PassiveListeners) \/ Tick

Spec == Init /\ [][Next]_vars

-----------------------------------------------------------------------------
(* Static analysis: bounds and values *)

MaxTags == 3
MaxBlocks == 3
MaxNodes == 2
MaxAnalyzers == 2
MaxAnnotations == 2
MaxViolations == 6

\* Math.min
Min(x, y) == IF x <= y THEN x ELSE y

RECURSIVE Pow(_, _)
\* Math.pow for a natural exponent
Pow(b, e) == IF e = 0 THEN 1 ELSE b * Pow(b, e - 1)

RECURSIVE Log10(_)
\* Math.log10 of a power of ten
Log10(x) == IF x < 10 THEN 0 ELSE 1 + Log10(x \div 10)

\* The sequences over S of length at most n
SeqsUpTo(S, n) == UNION {[1..k -> S] : k \in 0..n}

\* The member names of enum SDGGoal; a goal is written as the name of its member.
SDGGoalKeys ==
  {"Goal1", "Goal2", "Goal3", "Goal4", "Goal5", "Goal6", "Goal7", "Goal8", "Goal9",
   "Goal10", "Goal11", "Goal12", "Goal13", "Goal14", "Goal15", "Goal16", "Goal17"}

ImpactLevels == {"low", "medium", "high", "critical"}

ImpactCategories == {"environment", "social", "economic", "governance"}

\* SDGGoal[goalKey]: the member, or nothing ("") for a key the enum does not have
SDGGoal(goalKey) == IF goalKey \in SDGGoalKeys THEN goalKey ELSE ""

\* A comment is the sequence of its words. The words that /Goal\d+/ matches:
GoalWords == SDGGoalKeys \cup {"Goal0", "Goal18"}

\* The words that /\d+(?:\.\d+)?/ matches, with the value parseFloat gives them
\* (in units of 1e-4 kWh)
ParseFloat(w) == CASE w = "0" -> 0 [] w = "1.0" -> 10000 [] w = "20" -> 200000

NumberWords == {"0", "1.0", "20"}

\* {}: an annotation under construction with no field set
EmptyAnnotation ==
  [goal |-> "", carbonBudget |-> Undefined, impact |-> <<>>, description |-> <<>>,
   tags |-> <<>>]

\* Blocks are drawn with these tags.
TagInputs ==
  { [tagName |-> "sdg", comment |-> <<"Goal13">>],
    [tagName |-> "sdg", comment |-> <<"Goal7">>],
    [tagName |-> "sdg", comment |-> <<"Goal18">>],
    [tagName |-> "sdg", comment |-> <<>>],
    [tagName |-> "impact", comment |-> <<"environment", "high">>],
    [tagName |-> "impact", comment |-> <<"foo", "bar">>],
    [tagName |-> "impact", comment |-> <<"high">>],
    [tagName |-> "carbonBudget", comment |-> <<"1.0", "kWh">>],
    [tagName |-> "param", comment |-> <<"x">>] }

\* The tags t laid out in b blocks, tag i in block cut[i].
JsDocsOf(t, cut, b) ==
  [k \in 1..b |->
     LET before == Cardinality({i \in 1..Len(t) : cut[i] < k})
         inside == Cardinality({i \in 1..Len(t) : cut[i] = k})
     IN SubSeq(t, before + 1, before + inside)]

\* The ways to lay out n tags in b blocks.
Cuts(n, b) == {c \in [1..n -> 1..b] : \A i \in 1..(n - 1) : c[i] <= c[i + 1]}

-----------------------------------------------------------------------------
(* SDGAnnotationParser *)

\* comment?.match(/(Goal\d+)/): <<>> for no match, else the first word matched
GoalMatch(comment) ==
  LET hits == {i \in 1..Len(comment) : comment[i] \in GoalWords}
  IN IF hits = {} THEN <<>>
     ELSE <<comment[CHOOSE i \in hits : \A j \in hits : i <= j]>>

\* comment?.match(/(\d+(?:\.\d+)?)\s*kWh/): <<>> for no match, else the number matched
BudgetMatch(comment) ==
  LET hits == {i \in 1..(Len(comment) - 1) :
                 comment[i] \in NumberWords /\ comment[i + 1] = "kWh"}
  IN IF hits = {} THEN <<>>
     ELSE <<comment[CHOOSE i \in hits : \A j \in hits : i <= j]>>

\* comment?.match(/(\w+)\s+(\w+)/): <<>> for no match, else the two words matched
ImpactMatch(comment) ==
  IF Len(comment) < 2 THEN <<>> ELSE <<comment[1], comment[2]>>

\* The body of the switch for one tag.
ParseTag(currentAnnotation, tag) ==
  CASE tag.tagName = "sdg" ->
         LET goalMatch == GoalMatch(tag.comment)
         IN IF goalMatch # <<>> /\ SDGGoal(goalMatch[1]) # ""
            THEN [currentAnnotation EXCEPT !.goal = SDGGoal(goalMatch[1])]
            ELSE currentAnnotation
    [] tag.tagName = "carbonBudget" ->
         LET budgetMatch == BudgetMatch(tag.comment)
         IN IF budgetMatch # <<>>
            THEN [currentAnnotation EXCEPT !.carbonBudget = ParseFloat(budgetMatch[1])]
            ELSE currentAnnotation
    [] tag.tagName = "impact" ->
         LET impactMatch == ImpactMatch(tag.comment)
         IN IF impactMatch # <<>>
            THEN [currentAnnotation EXCEPT
                    !.impact = <<[category |-> impactMatch[1], level |-> impactMatch[2]]>>]
            ELSE currentAnnotation
    [] tag.tagName = "description" ->
         [currentAnnotation EXCEPT !.description = <<tag.comment>>]
    [] tag.tagName = "tags" ->
         [currentAnnotation EXCEPT !.tags = <<tag.comment>>]
    [] OTHER -> currentAnnotation

RECURSIVE ParseTags(_, _, _)
\* for (const tag of tags), from tag i on
ParseTags(tags, i, currentAnnotation) ==
  IF i > Len(tags) THEN currentAnnotation
  ELSE ParseTags(tags, i + 1, ParseTag(currentAnnotation, tags[i]))

RECURSIVE ParseBlocks(_, _, _)
\* for (const jsDoc of jsDocs), from block i on
ParseBlocks(docs, i, out) ==
  IF i > Len(docs) THEN out
  ELSE LET currentAnnotation == ParseTags(docs[i], 1, EmptyAnnotation)
       IN ParseBlocks(docs, i + 1,
                      IF currentAnnotation.goal # "" THEN Append(out, currentAnnotation)
                      ELSE out)

\* parseSDGAnnotations that returns after the first annotation it has produced.
parseSDGAnnotations_FirstOnly(docs) ==
  LET all == ParseBlocks(docs, 1, <<>>)
  IN IF all = <<>> THEN <<>> ELSE <<all[1]>>

parseSDGAnnotations(docs) == ParseBlocks(docs, 1, <<>>)

-----------------------------------------------------------------------------
(* ResourceAnalyzer *)

BaseEnergy == 100
EnergyPerNetworkCall == 10
EnergyPerIOOperation == 5
EnergyPerDecade == 100
AIModelEnergy == 500000
AIModelComplexity == 1000
LoopComplexityBase == 10
ComplexityLimit == 1000
HighImpactEnergy == 100000

LoopKinds == {"ForStatement", "WhileStatement", "ForInStatement", "ForOfStatement"}

\* The callee texts bodies are drawn with, and what text.includes finds in each.
CalleeTexts == {"fetch", "fs.readFile", "model.predict", "console.log"}

Includes(text, keyword) ==
  CASE text = "fetch" -> keyword = "fetch"
    [] text = "fs.readFile" -> keyword \in {"fs.", "readFile"}
    [] text = "model.predict" -> keyword = "predict"
    [] OTHER -> FALSE

NetworkKeywords == {"fetch", "axios", "http.request", "$.ajax"}

IOKeywords == {"readFile", "writeFile", "fs.", "localStorage", "sessionStorage"}

AIKeywords == {"tensorflow", "torch", "openai", "huggingface", "predict", "inference"}

\* The nodes bodies are drawn with, before they are given a depth.
NodeInputs ==
  {[kind |-> k, text |-> ""] : k \in LoopKinds}
    \cup {[kind |-> "CallExpression", text |-> t] : t \in CalleeTexts}

\* The depths of n nodes listed parents first: a node is a child of the nearest
\* node before it that is one level up.
Shapes(n) ==
  {d \in [1..n -> 1..n] :
     /\ n > 0 => d[1] = 1
     /\ \A i \in 1..(n - 1) : d[i + 1] <= d[i] + 1}

\* The body with the nodes of body b at the depths d.
Reshape(b, d) == [i \in 1..Len(b) |-> [b[i] EXCEPT !.depth = d[i]]]

\* Function bodies of at most MaxNodes nodes.
Bodies ==
  UNION { { [i \in 1..n |-> [kind |-> l[i].kind, text |-> l[i].text, depth |-> d[i]]] :
              l \in [1..n -> NodeInputs], d \in Shapes(n) } : n \in 0..MaxNodes }

RECURSIVE countNetworkCalls(_, _, _)
\* countNetworkCalls: forEachDescendant from descendant i on
countNetworkCalls(n, i, m) ==
  IF i > Len(n) THEN m
  ELSE countNetworkCalls(n, i + 1,
         IF n[i].kind = "CallExpression"
            /\ \E k \in NetworkKeywords : Includes(n[i].text, k)
         THEN [m EXCEPT !.networkCalls = OrZero(@) + 1]
         ELSE m)

RECURSIVE LoopScan(_, _, _, _)
\* The forEachDescendant of analyzeLoops from descendant i on: the final maxDepth.
LoopScan(n, i, loopDepth, maxDepth) ==
  IF i > Len(n) THEN maxDepth
  ELSE IF n[i].kind \in LoopKinds
       THEN LoopScan(n, i + 1, loopDepth + 1, Max(maxDepth, loopDepth + 1))
       ELSE LoopScan(n, i + 1, loopDepth, maxDepth)

analyzeLoops(n, m) ==
  [m EXCEPT !.computeComplexity = Pow(LoopComplexityBase, LoopScan(n, 1, 0, 0))]

RECURSIVE countIOOperations(_, _, _)
\* countIOOperations: forEachDescendant from descendant i on
countIOOperations(n, i, m) ==
  IF i > Len(n) THEN m
  ELSE countIOOperations(n, i + 1,
         IF n[i].kind = "CallExpression"
            /\ \E k \in IOKeywords : Includes(n[i].text, k)
         THEN [m EXCEPT !.ioOperations = OrZero(@) + 1]
         ELSE m)

RECURSIVE detectAIModelUsage(_, _, _)
\* detectAIModelUsage: forEachDescendant from descendant i on
detectAIModelUsage(n, i, m) ==
  IF i > Len(n) THEN m
  ELSE detectAIModelUsage(n, i + 1,
         IF n[i].kind = "CallExpression"
            /\ \E k \in AIKeywords : Includes(n[i].text, k)
         THEN [m EXCEPT
                 !.energy = OrZero(@) + AIModelEnergy,
                 !.computeComplexity = (IF Truthy(@) THEN @ ELSE 1) * AIModelComplexity]
         ELSE m)

\* estimateEnergyUsage that sets the energy to the base estimate.
estimateEnergyUsage_Overwrite(m) ==
  LET baseEnergy ==
        BaseEnergy
          + OrZero(m.networkCalls) * EnergyPerNetworkCall
          + OrZero(m.ioOperations) * EnergyPerIOOperation
          + Log10(IF Truthy(m.computeComplexity) THEN m.computeComplexity ELSE 1)
              * EnergyPerDecade
  IN [m EXCEPT !.energy = baseEnergy, !.emissions = baseEnergy * EmissionFactor]

estimateEnergyUsage(m) ==
  LET baseEnergy ==
        BaseEnergy
          + OrZero(m.networkCalls) * EnergyPerNetworkCall
          + OrZero(m.ioOperations) * EnergyPerIOOperation
          + Log10(IF Truthy(m.computeComplexity) THEN m.computeComplexity ELSE 1)
              * EnergyPerDecade
      energy == OrZero(m.energy) + baseEnergy
  IN [m EXCEPT !.energy = energy, !.emissions = OrZero(energy) * EmissionFactor]

\* The passes of analyzeFunction on the metrics object m.
AnalysisPasses(n, m) ==
  estimateEnergyUsage(
    detectAIModelUsage(n, 1,
      countIOOperations(n, 1,
        analyzeLoops(n,
          countNetworkCalls(n, 1, m)))))

\* The metrics object analyzeFunction begins with.
NewMetrics ==
  [energy |-> 0, emissions |-> 0, memory |-> 0, networkCalls |-> 0,
   ioOperations |-> 0, computeComplexity |-> 1]

\* analyzeFunction that goes on with the metrics object of the analysis before.
analyzeFunction_KeepMetrics(n) ==
  AnalysisPasses(n, IF analysed = <<>> THEN NewMetrics ELSE estimatedMetrics)

analyzeFunction(n) == AnalysisPasses(n, NewMetrics)

\* A violation; its message and suggestion texts are left out.
Violation(type, severity) == [type |-> type, severity |-> severity]

RECURSIVE BudgetViolations(_, _, _, _)
\* for (const annotation of annotations), from annotation i on
BudgetViolations(m, a, i, out) ==
  IF i > Len(a) THEN out
  ELSE BudgetViolations(m, a, i + 1,
         IF Truthy(a[i].carbonBudget) /\ Truthy(m.energy)
            /\ m.energy > a[i].carbonBudget
         THEN Append(out, Violation("carbon_budget_exceeded", "error"))
         ELSE out)

\* detectViolations that takes a complexity of 1000 for inefficient.
detectViolations_AtLimit(m, a) ==
  LET v1 == BudgetViolations(m, a, 1, <<>>)
      v2 == IF Truthy(m.computeComplexity) /\ m.computeComplexity >= ComplexityLimit
            THEN Append(v1, Violation("inefficient_algorithm", "warning"))
            ELSE v1
  IN IF Truthy(m.energy) /\ m.energy > HighImpactEnergy /\ Len(a) = 0
     THEN Append(v2, Violation("high_impact_no_annotation", "warning"))
     ELSE v2

\* detectViolations that warns of a high impact whether or not there are annotations.
detectViolations_Unannotated(m, a) ==
  LET v1 == BudgetViolations(m, a, 1, <<>>)
      v2 == IF Truthy(m.computeComplexity) /\ m.computeComplexity > ComplexityLimit
            THEN Append(v1, Violation("inefficient_algorithm", "warning"))
            ELSE v1
  IN IF Truthy(m.energy) /\ m.energy > HighImpactEnergy
     THEN Append(v2, Violation("high_impact_no_annotation", "warning"))
     ELSE v2

detectViolations(m, a) ==
  LET v1 == BudgetViolations(m, a, 1, <<>>)
      v2 == IF Truthy(m.computeComplexity) /\ m.computeComplexity > ComplexityLimit
            THEN Append(v1, Violation("inefficient_algorithm", "warning"))
            ELSE v1
  IN IF Truthy(m.energy) /\ m.energy > HighImpactEnergy /\ Len(a) = 0
     THEN Append(v2, Violation("high_impact_no_annotation", "warning"))
     ELSE v2

-----------------------------------------------------------------------------
(* SDGCompiler.calculateScore *)

FullScore == 100
ErrorPenalty == 20
WarningPenalty == 10
LowEnergy == 1000
LowEnergyBonus == 10
HighEnergy == 100000
HighEnergyPenalty == 15
AnnotationBonus == 5

RECURSIVE Penalised(_, _, _)
\* violations.forEach(violation => { score -= ... }), from violation i on
Penalised(v, i, sc) ==
  IF i > Len(v) THEN sc
  ELSE Penalised(v, i + 1,
                 sc - (IF v[i].severity = "error" THEN ErrorPenalty ELSE WarningPenalty))

\* calculateScore without the clamp.
calculateScore_NoClamp(m, v, a) ==
  LET s1 == Penalised(v, 1, FullScore)
      s2 == IF m.energy # Undefined
            THEN IF m.energy < LowEnergy THEN s1 + LowEnergyBonus
                 ELSE IF m.energy > HighEnergy THEN s1 - HighEnergyPenalty
                 ELSE s1
            ELSE s1
  IN s2 + Len(a) * AnnotationBonus

calculateScore(m, v, a) ==
  LET s1 == Penalised(v, 1, FullScore)
      s2 == IF m.energy # Undefined
            THEN IF m.energy < LowEnergy THEN s1 + LowEnergyBonus
                 ELSE IF m.energy > HighEnergy THEN s1 - HighEnergyPenalty
                 ELSE s1
            ELSE s1
      s3 == s2 + Len(a) * AnnotationBonus
  IN Max(0, Min(FullScore, s3))

-----------------------------------------------------------------------------
(* The steps of an analysis *)

\* The metrics, annotation lists and violation lists the detector and the score
\* are applied to (1e-4 kWh: 500 is 0.05 kWh, 15000 is 1.5 kWh, 100000 is 10 kWh).
EnergyInputs == {Undefined, 0, 500, 1000, 15000, 100000, 150000}

ComplexityInputs == {Undefined, 1, 1000, 10000}

BudgetInputs == {Undefined, 0, 10000, 200000}

MetricsInputs ==
  {[NoUsage EXCEPT !.energy = e, !.computeComplexity = c] :
     e \in EnergyInputs, c \in ComplexityInputs}

AnnotationInputs ==
  SeqsUpTo({[EmptyAnnotation EXCEPT !.goal = "Goal13", !.carbonBudget = b] :
              b \in BudgetInputs}, MaxAnnotations)

ViolationInputs ==
  SeqsUpTo({Violation("carbon_budget_exceeded", "error"),
            Violation("inefficient_algorithm", "warning")}, MaxViolations)

\* The record of the analyses, after one more of body n has returned m.
\* others: a body other than the first one has been analysed since the first analysis.
Analysed(done, n, m) ==
  IF done = <<>> THEN <<[node |-> n, metrics |-> m, others |-> FALSE]>>
  ELSE <<done[1],
         [node |-> n, metrics |-> m,
          others |-> n # done[1].node \/ (Len(done) = 2 /\ done[2].others)]>>

ParseSDGAnnotations ==
  /\ stage = "source"
  /\ annotations' = parseSDGAnnotations(jsDocs)
  /\ stage' = "parsed"
  /\ UNCHANGED <<sourceFile, results,
                 jsDocs, node, estimatedMetrics, violations, score, analysed, analyzer,
                 trackerVars>>

AnalyzeFunction ==
  /\ stage = "parsed"
  /\ estimatedMetrics' = analyzeFunction(node)
  /\ analysed' = Analysed(analysed, node, estimatedMetrics')
  /\ stage' = "analyzed"
  /\ UNCHANGED <<sourceFile, results,
                 jsDocs, node, annotations, violations, score, analyzer, trackerVars>>

DetectViolations ==
  /\ stage = "analyzed"
  /\ violations' = detectViolations(estimatedMetrics, annotations)
  /\ stage' = "detected"
  /\ UNCHANGED <<sourceFile, results,
                 jsDocs, node, annotations, estimatedMetrics, score, analysed, analyzer,
                 trackerVars>>

CalculateScore ==
  /\ stage = "detected"
  /\ score' = calculateScore(estimatedMetrics, violations, annotations)
  /\ stage' = "scored"
  /\ UNCHANGED <<sourceFile, results,
                 jsDocs, node, annotations, estimatedMetrics, violations, analysed,
                 analyzer, trackerVars>>

\* The next declaration to analyse has the nodes of this one at the depths d.
NextFunction(d) ==
  /\ stage = "analyzed"
  /\ node' = Reshape(node, d)
  /\ stage' = "parsed"
  /\ UNCHANGED <<sourceFile, results,
                 jsDocs, annotations, estimatedMetrics, violations, score, analysed,
                 analyzer, trackerVars>>

\* new ResourceAnalyzer(): the class has no fields.
NewAnalyzer ==
  /\ analyzer < MaxAnalyzers
  /\ analyzer' = analyzer + 1
  /\ UNCHANGED <<sourceFile, results,
                 jsDocs, node, annotations, estimatedMetrics, violations, score, stage,
                 analysed, trackerVars>>

\* A declaration with the given inputs, at the given stage of its analysis.
InitAnalysis(docs, body, a, m, v, st) ==
  /\ InitTracker(0)
  /\ jsDocs = docs
  /\ node = body
  /\ annotations = a
  /\ estimatedMetrics = m
  /\ violations = v
  /\ score = Undefined
  /\ stage = st
  /\ analysed = <<>>
  /\ analyzer = 1
  /\ sourceFile = <<>>
  /\ results = <<>>

\* parseSDGAnnotations applied to any list of at most MaxBlocks documentation blocks
\* with at most MaxTags tags in all.
InitParser ==
  \E t \in SeqsUpTo(TagInputs, MaxTags), b \in 0..MaxBlocks :
    \E cut \in Cuts(Len(t), b) :
      InitAnalysis(JsDocsOf(t, cut, b), <<>>, <<>>, NoUsage, <<>>, "source")

NextParser == ParseSDGAnnotations

SpecParser == InitParser /\ [][NextParser]_vars

\* analyzeFunction applied to any body and then to bodies with the same nodes.
InitEstimator == \E body \in Bodies : InitAnalysis(<<>>, body, <<>>, NoUsage, <<>>, "parsed")

NextEstimator ==
  \/ AnalyzeFunction
  \/ \E d \in Shapes(Len(node)) : NextFunction(d)
  \/ NewAnalyzer

SpecEstimator == InitEstimator /\ [][NextEstimator]_vars

\* detectViolations, and calculateScore after it, applied to any metrics and annotations.
InitDetector ==
  \E m \in MetricsInputs, a \in AnnotationInputs :
    InitAnalysis(<<>>, <<>>, a, m, <<>>, "analyzed")

NextDetector == DetectViolations \/ CalculateScore

SpecDetector == InitDetector /\ [][NextDetector]_vars

\* calculateScore applied to any metrics, violations and annotations.
InitScore ==
  \E m \in MetricsInputs, v \in ViolationInputs, a \in AnnotationInputs :
    /\ m.computeComplexity = 1
    /\ InitAnalysis(<<>>, <<>>, a, m, v, "detected")

NextScore == CalculateScore

SpecScore == InitScore /\ [][NextScore]_vars

-----------------------------------------------------------------------------
(* SDGCompiler.analyzeSourceFile *)

MaxDeclarations == 2

\* The kinds of declaration a source file is drawn with: function declarations,
\* class methods, and variable declarations initialised with an arrow function or
\* with a function expression.
DeclarationKinds ==
  {"FunctionDeclaration", "MethodDeclaration", "ArrowFunction", "FunctionExpression"}

\* The declarations files are drawn with. name is what getName() returns ("" for a
\* function declaration without a name), cls the name of the class of a method,
\* jsDocs what getJsDocs() returns for the function node.
DeclarationInputs ==
  LET named == {<<"FunctionDeclaration", "", "f">>, <<"FunctionDeclaration", "", "">>,
                <<"MethodDeclaration", "C", "m">>, <<"MethodDeclaration", "D", "m">>,
                <<"ArrowFunction", "", "v">>, <<"FunctionExpression", "", "w">>}
      docs  == {<<>>, <<<<[tagName |-> "sdg", comment |-> <<"Goal13">>]>>>>}
      body  == {<<>>, <<[kind |-> "CallExpression", text |-> "model.predict", depth |-> 1]>>}
  IN {[kind |-> n[1], cls |-> n[2], name |-> n[3], jsDocs |-> j, body |-> b] :
        n \in named, j \in docs, b \in body}

\* `${cls.getName()}.${method.getName()}`
MethodName(decl) == decl.cls \o "." \o decl.name

\* sourceFile.getFunctions()
GetFunctions(file) == SelectSeq(file, LAMBDA decl : decl.kind = "FunctionDeclaration")

\* sourceFile.getClasses() and getMethods() of each: the methods in source order
GetMethods(file) == SelectSeq(file, LAMBDA decl : decl.kind = "MethodDeclaration")

\* sourceFile.getVariableDeclarations()
GetVariableDeclarations(file) ==
  SelectSeq(file, LAMBDA decl : decl.kind \in {"ArrowFunction", "FunctionExpression"})

extractFromFunction(decl) == parseSDGAnnotations(decl.jsDocs)

\* annotationMap.get(name) || []
AnnotationsOf(annotationMap, name) ==
  IF name \in DOMAIN annotationMap THEN annotationMap[name] ELSE <<>>

RECURSIVE ExtractFunctions(_, _, _)
\* sourceFile.getFunctions().forEach of extractFromSourceFile, from function i on
ExtractFunctions(funcs, i, annotationMap) ==
  IF i > Len(funcs) THEN annotationMap
  ELSE LET a == extractFromFunction(funcs[i])
       IN ExtractFunctions(funcs, i + 1,
            IF funcs[i].name # "" /\ Len(a) > 0
            THEN FnPut(annotationMap, funcs[i].name, a)
            ELSE annotationMap)

RECURSIVE ExtractMethods(_, _, _)
\* The forEach over the methods of the classes, from method i on
ExtractMethods(methods, i, annotationMap) ==
  IF i > Len(methods) THEN annotationMap
  ELSE LET a == extractFromFunction(methods[i])
       IN ExtractMethods(methods, i + 1,
            IF Len(a) > 0 THEN FnPut(annotationMap, MethodName(methods[i]), a)
            ELSE annotationMap)

RECURSIVE ExtractArrowFunctions(_, _, _)
\* sourceFile.getVariableDeclarations().forEach, from declaration i on
ExtractArrowFunctions(varDecls, i, annotationMap) ==
  IF i > Len(varDecls) THEN annotationMap
  ELSE LET a == extractFromFunction(varDecls[i])
       IN ExtractArrowFunctions(varDecls, i + 1,
            IF varDecls[i].kind = "ArrowFunction" /\ Len(a) > 0
            THEN FnPut(annotationMap, varDecls[i].name, a)
            ELSE annotationMap)

extractFromSourceFile(file) ==
  ExtractArrowFunctions(GetVariableDeclarations(file), 1,
    ExtractMethods(GetMethods(file), 1,
      ExtractFunctions(GetFunctions(file), 1, <<>>)))

\* The SDGAnalysisResult pushed for the declaration decl under the name given.
AnalysisResult(annotationMap, name, decl) ==
  LET a == AnnotationsOf(annotationMap, name)
      m == analyzeFunction(decl.body)
      v == detectViolations(m, a)
  IN [functionName |-> name, sdgAnnotations |-> a, estimatedMetrics |-> m,
      violations |-> v, score |-> calculateScore(m, v, a)]

RECURSIVE AnalyzeFunctions(_, _, _, _)
\* sourceFile.getFunctions().forEach of analyzeSourceFile, from function i on
AnalyzeFunctions(funcs, i, annotationMap, out) ==
  IF i > Len(funcs) THEN out
  ELSE AnalyzeFunctions(funcs, i + 1, annotationMap,
         IF funcs[i].name # ""
         THEN Append(out, AnalysisResult(annotationMap, funcs[i].name, funcs[i]))
         ELSE out)

RECURSIVE AnalyzeMethods(_, _, _, _)
\* The forEach over the methods of the classes, from method i on
AnalyzeMethods(methods, i, annotationMap, out) ==
  IF i > Len(methods) THEN out
  ELSE AnalyzeMethods(methods, i + 1, annotationMap,
         Append(out, AnalysisResult(annotationMap, MethodName(methods[i]), methods[i])))

analyzeSourceFile(file) ==
  LET annotationMap == extractFromSourceFile(file)
  IN AnalyzeMethods(GetMethods(file), 1, annotationMap,
       AnalyzeFunctions(GetFunctions(file), 1, annotationMap, <<>>))

\* What a declaration is identified by.
Identifier(decl) == IF decl.kind = "MethodDeclaration" THEN MethodName(decl) ELSE decl.name

AnalyzeSourceFile ==
  /\ stage = "file"
  /\ results' = analyzeSourceFile(sourceFile)
  /\ stage' = "results"
  /\ UNCHANGED <<sourceFile, jsDocs, node, annotations, estimatedMetrics, violations,
                 score, analysed, analyzer, trackerVars>>

\* analyzeSourceFile applied to any file of at most MaxDeclarations declarations with
\* identifiers of their own.
InitCompiler ==
  \E file \in SeqsUpTo(DeclarationInputs, MaxDeclarations) :
    /\ \A i, j \in 1..Len(file) : Identifier(file[i]) = Identifier(file[j]) => i = j
    /\ InitTracker(0)
    /\ jsDocs = <<>>
    /\ node = <<>>
    /\ annotations = <<>>
    /\ estimatedMetrics = NoUsage
    /\ violations = <<>>
    /\ score = Undefined
    /\ stage = "file"
    /\ analysed = <<>>
    /\ analyzer = 1
    /\ sourceFile = file
    /\ results = <<>>

NextCompiler == AnalyzeSourceFile

SpecCompiler == InitCompiler /\ [][NextCompiler]_vars

-----------------------------------------------------------------------------
(* Properties *)

Turn == left' = left - 1

Types(tr) == [k \in 1..Len(tr) |-> tr[k].type]

EventIds(tr) == [k \in 1..Len(tr) |-> tr[k].contextId]

\* C1: once a withSDGContext promise has settled, whatever the exit path of the work
\* (return, synchronous throw, rejection), its id is in neither map, a context_ended
\* event for it has been emitted, and the promise carries the work's value exactly
\* when the work was fulfilled and its failure otherwise.
C1_ScopeAlwaysEnded ==
  /\ \A p \in Helpers :
       pc[p] = "done" =>
         /\ p \notin MapKeys(activeContexts)
         /\ p \notin DOMAIN metrics
         /\ p \in ended
         /\ result[p] \in {"value", "raised"}
  /\ lastOp.op = "withSDGContext" /\ lastOp.outcome # "await" =>
       /\ pc[lastOp.id] = "done"
       /\ result[lastOp.id] = (IF lastOp.outcome = "fulfilled" THEN "value" ELSE "raised")
       /\ lastOp.raised = (lastOp.outcome # "fulfilled")

\* A scope whose work was rejected while another scope was still running.
C1_Witness ==
  /\ lastOp.op = "withSDGContext" /\ lastOp.outcome = "rejected"
  /\ result[lastOp.id] = "raised"
  /\ lastOp.id \in ended
  /\ \E q \in Helpers : pc[q] = "running"

\* C2: every live accumulator has emissions = energy * 500.
C2_EmissionsFollowEnergy ==
  \A id \in DOMAIN metrics : metrics[id].emissions = metrics[id].energy * EmissionFactor

Agree(m, c) ==
  /\ m.energy = c.energy
  /\ m.emissions = c.emissions
  /\ m.networkCalls = c.networkCalls
  /\ m.ioOperations = c.ioOperations
  /\ m.memory = c.memory

\* C3: a live accumulator holds, field by field, the sum of the partials handed to
\* trackResource for its id since its start, and for memory their maximum; the metrics
\* an endContext call returns are those sums and that maximum.
C3_SumsAndPeak ==
  [][ /\ \A id \in DOMAIN metrics' : Agree(metrics'[id], credited'[id])
      /\ Turn /\ lastOp'.op = "endContext" /\ lastOp'.known =>
           /\ Len(ret') = 1
           /\ Agree(ret'[1], credited[lastOp'.id]) ]_vars

\* Energy 2 then 3 gives 5, memory 2 then 1 gives 2.
C3_Witness ==
  /\ "a" \in DOMAIN metrics
  /\ metrics["a"].energy = 5
  /\ metrics["a"].memory = 2
  /\ lastOp.op = "trackResource" /\ lastOp.usage.memory = 1

\* C4: trackResource and endContext for an id that is not in the registry raise nothing,
\* emit nothing, create no entry and change no context, accumulator or descriptor;
\* endContext returns null and getCurrentMetrics still finds nothing for the id.
C4_UnknownIdIsNoOp ==
  [][ Turn /\ lastOp'.op \in {"trackResource", "endContext"} /\ ~lastOp'.known =>
        /\ activeContexts' = activeContexts
        /\ metrics' = metrics
        /\ startTime' = startTime
        /\ started' = started
        /\ ended' = ended
        /\ trace' = <<>>
        /\ ~lastOp'.raised
        /\ lastOp'.op = "endContext" => ret' = <<>>
        /\ GetCurrentMetrics(Cur, lastOp.id)' = <<>> ]_vars

\* trackResource for an unknown id while another context is active.
C4_Witness ==
  /\ lastOp.op = "trackResource" /\ ~lastOp.known /\ lastOp.usage.energy > 0
  /\ trace = <<>>
  /\ DOMAIN metrics # {}
  /\ lastOp.id \notin DOMAIN metrics

\* The budget events of the last turn: carbon_budget_exceeded comes from endContext
\* only, directly before the context_ended of the same id and with the same metrics,
\* and, for a context with a positive budget, exactly when its energy is above it.
C5_BudgetEvents ==
  \A k \in 1..Len(trace) :
    LET e == trace[k] IN
    /\ e.type = "carbon_budget_exceeded" =>
         /\ lastOp.op \in {"endContext", "withSDGContext"}
         /\ k < Len(trace)
         /\ trace[k + 1].type = "context_ended"
         /\ trace[k + 1].contextId = e.contextId
         /\ trace[k + 1].metrics = e.metrics
         /\ e.metrics[1].energy > CarbonBudgetOf(e.context)
    /\ e.type = "context_ended" /\ CarbonBudgetOf(e.context) > 0 =>
         /\ (e.metrics[1].energy > CarbonBudgetOf(e.context))
              <=> (k > 1 /\ trace[k - 1].type = "carbon_budget_exceeded"
                         /\ trace[k - 1].contextId = e.contextId)
         /\ e.contextId \notin MapKeys(activeContexts)
         /\ e.contextId \notin DOMAIN metrics

\* C5: carbon_budget_exceeded is emitted only by endContext, directly before the
\* context_ended of the same id and with the same metrics, and, for a context with
\* a positive budget, exactly when the accumulated energy is strictly above the
\* budget; endContext then removes the entry and returns the accumulated metrics,
\* which context_ended carries.
C5_BudgetCheckedAtEnd ==
  [][ /\ C5_BudgetEvents'
      /\ Turn /\ lastOp'.op = "endContext" /\ lastOp'.known =>
           LET id == lastOp'.id
               budget == CarbonBudgetOf(activeContexts[MapGet(activeContexts, id)].context)
           IN /\ ret' = <<metrics[id]>>
              /\ trace'[Len(trace')].type = "context_ended"
              /\ trace'[Len(trace')].metrics = ret'
              /\ budget > 0 =>
                   Types(trace') = IF metrics[id].energy > budget
                                   THEN <<"carbon_budget_exceeded", "context_ended">>
                                   ELSE <<"context_ended">> ]_vars

\* A context with budget 2 ended at energy 3.
C5_Witness ==
  /\ lastOp.op = "endContext"
  /\ Types(trace) = <<"carbon_budget_exceeded", "context_ended">>
  /\ CarbonBudgetOf(trace[1].context) = 2
  /\ ret # <<>> /\ ret[1].energy = 3

\* The accumulator m after the partial u has been merged into it once.
MergedOnce(m, u) ==
  [energy |-> m.energy + u.energy,
   emissions |-> m.emissions + u.emissions,
   memory |-> IF u.memory > m.memory THEN u.memory ELSE m.memory,
   networkCalls |-> m.networkCalls + u.networkCalls,
   ioOperations |-> m.ioOperations + u.ioOperations,
   computeComplexity |-> m.computeComplexity]

\* C6: one broadcast merges its partial exactly once into the accumulator of every
\* context active at that instant and emits exactly one resource_tracked event per
\* such context, in registry order; with no active context it changes nothing.
C6_BroadcastOncePerContext ==
  [][ Turn /\ lastOp'.op = "broadcast" =>
        /\ activeContexts' = activeContexts
        /\ DOMAIN metrics' = DOMAIN metrics
        /\ \A id \in DOMAIN metrics : metrics'[id] = MergedOnce(metrics[id], lastOp'.usage)
        /\ EventIds(trace') = MapIds(activeContexts)
        /\ \A k \in 1..Len(trace') :
             /\ trace'[k].type = "resource_tracked"
             /\ trace'[k].usage = <<lastOp'.usage>> ]_vars

\* Two overlapping withSDGContext scopes, both charged one network call by one broadcast.
C6_Witness ==
  /\ lastOp.op = "broadcast" /\ lastOp.usage.networkCalls = 1
  /\ pc["h1"] = "running" /\ pc["h2"] = "running"
  /\ EventIds(trace) = <<"h1", "h2">>
  /\ metrics["h1"].networkCalls = 1 /\ metrics["h2"].networkCalls = 1

\* The number of resource_tracked events of the trace tr that carry the id.
Credits(tr, id) ==
  Cardinality({k \in 1..Len(tr) : tr[k].type = "resource_tracked" /\ tr[k].contextId = id})

\* C7: whatever listeners do while a broadcast is in progress, every context that was
\* active when the broadcast began is credited exactly once by it, and no context
\* is credited twice.
C7_SnapshotCreditedOnce ==
  [][ Turn /\ lastOp'.op = "broadcast" =>
        /\ \A id \in MapKeys(activeContexts) : Credits(trace', id) = 1
        /\ \A id \in Ids : Credits(trace', id) <= 1 ]_vars

\* C8: every event is delivered to all listeners registered when it is emitted, in
\* registration order, before the turn ends, also when some of them throw; tracker
\* calls raise nothing and complete their state change.
C8_AllListenersServed ==
  /\ \A k \in 1..Len(trace) : trace[k].got = trace[k].regs
  /\ lastOp.op \in {"startContext", "endContext", "trackResource", "broadcast"} =>
       ~lastOp.raised
  /\ lastOp.op = "startContext" =>
       /\ lastOp.id \in MapKeys(activeContexts)
       /\ metrics[lastOp.id] = ZeroMetrics
       /\ Types(trace) = <<"context_started">>
  /\ lastOp.op = "endContext" /\ lastOp.known =>
       /\ lastOp.id \notin MapKeys(activeContexts)
       /\ lastOp.id \notin DOMAIN metrics
       /\ trace[Len(trace)].type = "context_ended"
       /\ Len(ret) = 1
  /\ lastOp.op = "trackResource" /\ lastOp.known =>
       /\ Types(trace) = <<"resource_tracked">>
       /\ <<metrics[lastOp.id]>> = trace[1].totalMetrics

\* An event emitted with a throwing listener registered ahead of an observing one.
C8_Witness ==
  /\ trace # <<>>
  /\ trace[1].regs = <<"thrower", "observer">>
  /\ trace[1].got = <<"thrower", "observer">>
  /\ lastOp.op = "startContext"

\* C9: startContext registers exactly one entry for the id, with the given context
\* and an accumulator that is zero in every field (computeComplexity 1), and emits
\* context_started and nothing else; for an id that is already active the entry and
\* the accumulator are replaced and no context_ended is emitted, so a later
\* endContext returns what was accumulated since this start.
C9_StartResets ==
  [][ /\ Turn /\ lastOp'.op = "startContext" =>
           LET id == lastOp'.id IN
           /\ Cardinality({i \in 1..Len(activeContexts') : activeContexts'[i].id = id}) = 1
           /\ activeContexts'[MapGet(activeContexts', id)].context = lastOp'.outcome
           /\ MapKeys(activeContexts') = MapKeys(activeContexts) \cup {id}
           /\ metrics'[id] = ZeroMetrics
           /\ \A other \in DOMAIN metrics \ {id} : metrics'[other] = metrics[other]
           /\ Types(trace') = <<"context_started">>
           /\ trace'[1].contextId = id
           /\ ended' = ended
      /\ Turn /\ lastOp'.op = "endContext" /\ lastOp'.known =>
           ret' = <<metrics[lastOp'.id]>> ]_vars

\* An id started again while it was active.
C9_Witness ==
  /\ lastOp.op = "startContext" /\ lastOp.known
  /\ metrics[lastOp.id] = ZeroMetrics
  /\ lastOp.id \notin ended
  /\ left = 0

\* C10: an event that is not context_started carries an id whose context_started was
\* emitted before it, and a withSDGContext invocation that has left its start has had
\* context_started emitted for its id.
C10_StartPrecedes ==
  [][ /\ \A k \in 1..Len(trace') :
           trace'[k].type # "context_started" =>
             \/ trace'[k].contextId \in started
             \/ \E j \in 1..(k - 1) :
                  /\ trace'[j].type = "context_started"
                  /\ trace'[j].contextId = trace'[k].contextId
      /\ \A p \in Helpers : pc'[p] # "idle" => p \in started'
      /\ \A p \in Helpers : pc[p] = "idle" /\ pc'[p] # "idle" =>
           /\ trace'[1].type = "context_started"
           /\ trace'[1].contextId = p ]_vars

\* Two scopes that overlap without nesting: h1 started first and ended first.
C10_Witness ==
  /\ pc["h1"] = "done" /\ pc["h2"] = "running"
  /\ lastOp.op = "withSDGContext" /\ lastOp.id = "h1" /\ lastOp.outcome = "fulfilled"
  /\ Types(trace) = <<"resource_tracked", "context_ended">>
  /\ {"h1", "h2"} \subseteq started

\* C11: for metrics and an annotation list whose budgets are positive, detectViolations
\* returns, in this order: one carbon_budget_exceeded error for each annotation with a
\* carbonBudget below the energy, in annotation order; one inefficient_algorithm
\* warning exactly when computeComplexity is above 1000; one high_impact_no_annotation
\* warning exactly when the energy is above 10 kWh and there is no annotation.
C11_ViolationsInOrder ==
  stage \in {"detected", "scored"}
    /\ (\A i \in 1..Len(annotations) : annotations[i].carbonBudget # 0) =>
      LET m == estimatedMetrics
          over == SelectSeq(annotations,
                            LAMBDA a : /\ a.carbonBudget # Undefined
                                       /\ m.energy # Undefined
                                       /\ m.energy > a.carbonBudget)
          errors == [i \in 1..Len(over) |-> Violation("carbon_budget_exceeded", "error")]
          inefficient ==
            IF m.computeComplexity # Undefined /\ m.computeComplexity > 1000
            THEN <<Violation("inefficient_algorithm", "warning")>> ELSE <<>>
          unannotated ==
            IF m.energy # Undefined /\ m.energy > 100000 /\ annotations = <<>>
            THEN <<Violation("high_impact_no_annotation", "warning")>> ELSE <<>>
      IN violations = errors \o inefficient \o unannotated

\* Energy 1.5 kWh and complexity 10000 against budgets of 20 kWh and 1 kWh: the
\* second budget is exceeded and the algorithm is inefficient.
C11_Witness ==
  /\ stage = "detected"
  /\ estimatedMetrics.energy = 15000 /\ estimatedMetrics.computeComplexity = 10000
  /\ Len(annotations) = 2
  /\ annotations[1].carbonBudget = 200000 /\ annotations[2].carbonBudget = 10000
  /\ violations = <<Violation("carbon_budget_exceeded", "error"),
                    Violation("inefficient_algorithm", "warning")>>

\* C12: calculateScore returns 100 - 20 for each error - 10 for each warning
\* + 10 if the energy is below 0.1 kWh, - 15 if it is above 10 kWh + 5 for each
\* annotation, clamped to 0..100; one error, one annotation and 1.5 kWh give 85.
C12_ScoreFormula ==
  stage = "scored" =>
    LET errors == Cardinality({i \in 1..Len(violations) : violations[i].severity = "error"})
        warnings ==
          Cardinality({i \in 1..Len(violations) : violations[i].severity = "warning"})
        energy == estimatedMetrics.energy
        adjustment == IF energy = Undefined THEN 0
                      ELSE IF energy < 1000 THEN 10
                      ELSE IF energy > 100000 THEN 0 - 15
                      ELSE 0
        raw == 100 - 20 * errors - 10 * warnings + adjustment + 5 * Len(annotations)
    IN /\ score = (IF raw < 0 THEN 0 ELSE IF raw > 100 THEN 100 ELSE raw)
       /\ score \in 0..100
       /\ errors = 1 /\ warnings = 0 /\ Len(annotations) = 1 /\ energy = 15000 => score = 85

\* Six errors at more than 10 kWh: the score is held at 0.
C12_Witness ==
  /\ stage = "scored"
  /\ Len(violations) = 6
  /\ \A i \in 1..Len(violations) : violations[i].severity = "error"
  /\ estimatedMetrics.energy = 150000
  /\ Len(annotations) = 1
  /\ score = 0

\* The analyses on record.
Analyses == {analysed[i] : i \in 1..Len(analysed)}

\* The descendants of body b that enclose descendant i.
Ancestors(b, i) ==
  {j \in 1..(i - 1) : \A k \in (j + 1)..i : b[k].depth > b[j].depth}

\* The lexical nesting depth of the iteration constructs of body b.
NestingDepth(b) ==
  LET loops == {i \in 1..Len(b) : b[i].kind \in LoopKinds}
      depthOf(i) == Cardinality({j \in Ancestors(b, i) \cup {i} : j \in loops})
  IN IF loops = {} THEN 0
     ELSE CHOOSE d \in {depthOf(i) : i \in loops} : \A i \in loops : depthOf(i) <= d

\* The call expressions of body b whose callee text has one of the keywords.
Matches(b, keywords) ==
  Cardinality({i \in 1..Len(b) :
                 /\ b[i].kind = "CallExpression"
                 /\ \E k \in keywords : Includes(b[i].text, k)})

\* C13: analyzeFunction yields computeComplexity = 10^D * 1000^k, D the maximum
\* lexical nesting depth of the loops of the body and k its heavy-inference calls;
\* two loops one after the other give D = 1.
C13_ComplexityFromDepth ==
  \A p \in Analyses :
    p.metrics.computeComplexity
      = Pow(10, NestingDepth(p.node)) * Pow(1000, Matches(p.node, AIKeywords))

\* Two bodies with the same nodes in the same order, whatever their depths.
SameNodes(b, c) ==
  /\ Len(b) = Len(c)
  /\ \A i \in 1..Len(b) : b[i].kind = c[i].kind /\ b[i].text = c[i].text

\* C14: of two bodies with the same nodes, the second nested one level deeper than
\* the first, the second has exactly 10 times the computeComplexity of the first
\* and no less energy.
C14_DeeperIsTenfold ==
  \A p, q \in Analyses :
    SameNodes(p.node, q.node) /\ NestingDepth(q.node) = NestingDepth(p.node) + 1 =>
      /\ q.metrics.computeComplexity = 10 * p.metrics.computeComplexity
      /\ q.metrics.energy >= p.metrics.energy

\* C15: analyzeFunction yields energy = 0.01 + 0.001 per network call + 0.0005 per
\* I/O operation + 0.01 * log10(computeComplexity) + 50 per heavy-inference call, and
\* emissions = energy * 500; a body with no loop and no matching call yields energy
\* 0.01 and computeComplexity 1.
C15_EnergyFormula ==
  \A p \in Analyses :
    LET m == p.metrics
        k == Matches(p.node, AIKeywords)
    IN /\ m.networkCalls = Matches(p.node, NetworkKeywords)
       /\ m.ioOperations = Matches(p.node, IOKeywords)
       /\ m.energy = 100 + m.networkCalls * 10 + m.ioOperations * 5
                       + Log10(m.computeComplexity) * 100 + 500000 * k
       /\ m.emissions = m.energy * 500
       /\ (/\ \A i \in 1..Len(p.node) : p.node[i].kind \notin LoopKinds
           /\ Matches(p.node, NetworkKeywords \cup IOKeywords \cup AIKeywords) = 0) =>
            m.energy = 100 /\ m.computeComplexity = 1

\* A body with one network call and one heavy-inference call.
C15_Witness ==
  /\ stage = "analyzed"
  /\ Matches(node, NetworkKeywords) = 1 /\ Matches(node, AIKeywords) = 1
  /\ estimatedMetrics.computeComplexity = 1000
  /\ estimatedMetrics.energy = 500410
  /\ estimatedMetrics.emissions = 250205000

NamesGoal(block) ==
  \E i \in 1..Len(block) :
    /\ block[i].tagName = "sdg"
    /\ \E j \in 1..Len(block[i].comment) : block[i].comment[j] \in SDGGoalKeys

\* The goal a block names: that of its last sdg tag that names one.
GoalOf(block) ==
  LET named == {i \in 1..Len(block) :
                  /\ block[i].tagName = "sdg"
                  /\ \E j \in 1..Len(block[i].comment) : block[i].comment[j] \in SDGGoalKeys}
      last == CHOOSE i \in named : \A j \in named : j <= i
  IN CHOOSE g \in SDGGoalKeys : \E j \in 1..Len(block[last].comment) :
                                  block[last].comment[j] = g

\* C17: parseSDGAnnotations returns one annotation for each block that names a goal
\* of Goal1..Goal17, in block order, and nothing for the other blocks; no block
\* gives no annotation and there are never more annotations than blocks.
C17_OnePerNamedBlock ==
  stage = "parsed" =>
    LET named == SelectSeq(jsDocs, NamesGoal)
    IN /\ Len(annotations) = Len(named)
       /\ \A k \in 1..Len(named) : annotations[k].goal = GoalOf(named[k])
       /\ Len(annotations) <= Len(jsDocs)
       /\ jsDocs = <<>> => annotations = <<>>

\* Goal7, then a block that names Goal18, then Goal13.
C17_Witness ==
  /\ stage = "parsed"
  /\ Len(jsDocs) = 3
  /\ jsDocs[2] = <<[tagName |-> "sdg", comment |-> <<"Goal18">>]>>
  /\ Len(annotations) = 2
  /\ annotations[1].goal = "Goal7" /\ annotations[2].goal = "Goal13"

\* C18: every annotation produced has a goal of the enumeration and, when it has an
\* impact, a category and a level of their enumerations.
C18_WellTyped ==
  \A k \in 1..Len(annotations) :
    /\ annotations[k].goal \in SDGGoalKeys
    /\ annotations[k].impact # <<>> =>
         /\ annotations[k].impact[1].category \in ImpactCategories
         /\ annotations[k].impact[1].level \in ImpactLevels

\* C19: the totalMetrics of a resource_tracked event equals the accumulator right
\* after the merge, and what a listener kept of it is not changed by any later call;
\* setting or deleting ids in the map getActiveContexts returned changes neither
\* the registry nor the accumulators.
C19_HandedOutSnapshots ==
  [][ /\ Turn /\ lastOp'.op = "trackResource" /\ lastOp'.known =>
           /\ Len(trace') = 1
           /\ trace'[1].totalMetrics = <<metrics'[lastOp'.id]>>
      /\ held = <<>> /\ held' # <<>> =>
           /\ held'[1].contextId = lastOp'.id
           /\ held'[1].totalMetrics = <<metrics'[lastOp'.id]>>
      /\ held # <<>> => held'= held
      /\ Turn /\ lastOp'.op \in {"map.set", "map.delete"} =>
           /\ activeContexts' = activeContexts
           /\ metrics' = metrics
           /\ trace' = <<>> ]_vars

\* The total a listener kept at energy 2 is still at 2 after the same context was
\* charged again.
C19_Witness ==
  /\ held # <<>>
  /\ held[1].totalMetrics[1].energy = 2
  /\ lastOp.op = "trackResource" /\ lastOp.id = held[1].contextId /\ lastOp.known
  /\ metrics[lastOp.id].energy = 5

\* C20: a carbonBudget of 0 is enforced like any other: detectViolations returns one
\* carbon_budget_exceeded error for each annotation whose carbonBudget, 0 included,
\* is below the energy.
C20_ZeroBudgetEnforced ==
  stage \in {"detected", "scored"} =>
    Cardinality({i \in 1..Len(violations) : violations[i].type = "carbon_budget_exceeded"})
      = Cardinality({i \in 1..Len(annotations) :
                       /\ annotations[i].carbonBudget # Undefined
                       /\ estimatedMetrics.energy # Undefined
                       /\ estimatedMetrics.energy > annotations[i].carbonBudget})

\* The same at run time: endContext of a context whose carbonBudget is 0 and whose
\* energy is above 0 emits carbon_budget_exceeded before context_ended.
ZeroBudgetAtEnd ==
  [][ Turn /\ lastOp'.op = "endContext" /\ lastOp'.known =>
        LET id == lastOp'.id
            budget == CarbonBudgetOf(activeContexts[MapGet(activeContexts, id)].context)
        IN budget = 0 /\ metrics[id].energy > 0 =>
             Types(trace') = <<"carbon_budget_exceeded", "context_ended">> ]_vars

\* The teardown events of the id in the trace tr.
Teardown(tr, id) ==
  {k \in 1..Len(tr) : /\ tr[k].type \in {"carbon_budget_exceeded", "context_ended"}
                      /\ tr[k].contextId = id}

\* C21: in every run of withSDGContext, on the failure path as on the success path,
\* a resource_tracked event for the id directly precedes the teardown events of the
\* id, so the residual estimate is merged before the context is ended. (A scope
\* whose context a caller has ended from outside is left out.)
C21_ResidualBeforeTeardown ==
  [][ Turn /\ lastOp'.op = "withSDGContext"
        /\ (lastOp'.outcome = "throw"
              \/ (lastOp'.outcome \in {"fulfilled", "rejected"} /\ lastOp'.known)) =>
        LET id == lastOp'.id
            down == Teardown(trace', id)
            first == CHOOSE k \in down : \A j \in down : k <= j
        IN /\ down # {}
           /\ first > 1
           /\ trace'[first - 1].type = "resource_tracked"
           /\ trace'[first - 1].contextId = id ]_vars

\* The declarations of the kinds the extractor identifies: functions with a name,
\* class methods and arrow functions bound to a variable.
Identified(file) ==
  SelectSeq(file, LAMBDA decl :
    \/ decl.kind = "FunctionDeclaration" /\ decl.name # ""
    \/ decl.kind = "MethodDeclaration"
    \/ decl.kind = "ArrowFunction")

\* C22: analyzeSourceFile returns exactly one result for each named function, class
\* method and arrow function bound to a variable, with the annotations the extractor
\* collected under its identifier, and no other result.
C22_OneResultPerDeclaration ==
  stage = "results" =>
    LET decls == Identified(sourceFile)
    IN /\ \A i \in 1..Len(decls) :
            \E k \in 1..Len(results) :
              /\ results[k].functionName = Identifier(decls[i])
              /\ results[k].sdgAnnotations = parseSDGAnnotations(decls[i].jsDocs)
              /\ \A j \in 1..Len(results) :
                   results[j].functionName = results[k].functionName => j = k
       /\ Len(results) = Len(decls)

\* C23: whatever calls were made, colliding and unknown ids included, the ids of the
\* active-context map are the ids of the metrics map: getCurrentMetrics(id) finds
\* metrics exactly for the ids getActiveContexts() holds.
C23_SameIds ==
  /\ MapKeys(activeContexts) = DOMAIN metrics
  /\ \A id \in Ids :
       GetCurrentMetrics(Cur, id) # <<>> <=> id \in MapKeys(GetActiveContexts(Cur).entries)

\* One of two active contexts has been ended; the other one is in both maps.
C23_Witness ==
  /\ lastOp.op = "endContext" /\ lastOp.known
  /\ lastOp.id \notin DOMAIN metrics
  /\ \E id \in Ids : id \in DOMAIN metrics /\ id \in MapKeys(activeContexts)

\* C24: trackResource with an explicit id changes the accumulator of that id only:
\* the registry, the descriptors and the accumulators of the other ids stay as they
\* are and computeComplexity of the id stays 1, also when the partial carries a
\* computeComplexity; startContext and endContext leave the accumulators of all
\* other ids as they are.
C24_OnlyOwnAccumulator ==
  [][ /\ Turn /\ lastOp'.op = "trackResource" =>
           /\ activeContexts' = activeContexts
           /\ startTime' = startTime
           /\ DOMAIN metrics' = DOMAIN metrics
           /\ \A other \in DOMAIN metrics \ {lastOp'.id} : metrics'[other] = metrics[other]
           /\ lastOp'.known => metrics'[lastOp'.id].computeComplexity = 1
      /\ Turn /\ lastOp'.op \in {"startContext", "endContext"} =>
           \A other \in DOMAIN metrics \ {lastOp'.id} :
             other \in DOMAIN metrics' /\ metrics'[other] = metrics[other] ]_vars

\* A partial with computeComplexity 5 and energy 1 charged to one of two contexts, the
\* other one holding energy of its own.
C24_Witness ==
  /\ lastOp.op = "trackResource" /\ lastOp.known
  /\ lastOp.usage.computeComplexity = 5
  /\ metrics[lastOp.id].computeComplexity = 1
  /\ metrics[lastOp.id].energy = 1
  /\ \E other \in DOMAIN metrics \ {lastOp.id} : metrics[other].energy = 2

\* The context_ended events of the id in the trace tr.
Endings(tr, id) ==
  {k \in 1..Len(tr) : tr[k].type = "context_ended" /\ tr[k].contextId = id}

\* C25: an endContext call for an active id emits exactly one context_ended event for
\* it, also when a listener calls endContext for the same id while it is handed the
\* carbon_budget_exceeded or the context_ended event of the id.
C25_EndedOnce ==
  [][ Turn /\ lastOp'.op = "endContext" /\ lastOp'.known =>
        Cardinality(Endings(trace', lastOp'.id)) = 1 ]_vars

\* C26: once the context_ended event of an id has been emitted, no resource_tracked
\* event for the id is emitted and its metrics do not change: endContext returns the
\* metrics context_ended carried, also when a listener calls trackResource for the
\* id while it is handed context_ended, and a trackResource after the end does nothing.
C26_FinalAtEnd ==
  [][ /\ Turn /\ lastOp'.op = "endContext" /\ lastOp'.known =>
           LET id == lastOp'.id
               last == CHOOSE k \in Endings(trace', id) :
                         \A j \in Endings(trace', id) : j <= k
           IN /\ Endings(trace', id) # {}
              /\ \A k \in 1..Len(trace') :
                   trace'[k].type = "resource_tracked" /\ trace'[k].contextId = id =>
                     \A j \in Endings(trace', id) : k < j
              /\ ret' = trace'[last].metrics
      /\ Turn /\ lastOp'.op \in {"trackResource", "broadcast"} =>
           \A k \in 1..Len(trace') : trace'[k].contextId \in MapKeys(activeContexts) ]_vars

\* The descriptor object registered for the active id.
ContextOf(id) == activeContexts[MapGet(activeContexts, id)].context

\* C27: a start leaves the start time of every other active context as it is, also
\* when it is given the descriptor object of that context, and the context_ended of
\* a withSDGContext scope reports the time since the scope's own start.
C27_OwnStartTime ==
  [][ /\ Turn /\ lastOp'.op \in {"startContext", "withSDGContext"} =>
           \A other \in MapKeys(activeContexts) \ {lastOp'.id} :
             startTime'[ContextOf(other)] = startTime[ContextOf(other)]
      /\ Turn /\ lastOp'.op = "withSDGContext" /\ lastOp'.known
           /\ lastOp'.outcome \in {"fulfilled", "rejected"} =>
           \A k \in Endings(trace', lastOp'.id) :
             trace'[k].duration = now - hstart[lastOp'.id] ]_vars

\* The violations of the type in the list v.
OfType(v, type) == {i \in 1..Len(v) : v[i].type = type}

\* C28: detectViolations never returns a carbon_budget_exceeded together with a
\* high_impact_no_annotation; it returns at most one violation more than there are
\* annotations with a carbonBudget when there are annotations, and at most 2 when
\* there are none.
C28_ViolationsBounded ==
  stage \in {"detected", "scored"} =>
    /\ OfType(violations, "carbon_budget_exceeded") = {}
         \/ OfType(violations, "high_impact_no_annotation") = {}
    /\ annotations # <<>> =>
         Len(violations)
           <= Cardinality({i \in 1..Len(annotations) :
                             annotations[i].carbonBudget # Undefined}) + 1
    /\ annotations = <<>> => Len(violations) <= 2

\* Two budgets of 1 kWh exceeded at 15 kWh by an inefficient algorithm: three
\* violations, none of them high_impact_no_annotation.
C28_Witness ==
  /\ stage = "detected"
  /\ Len(annotations) = 2
  /\ \A i \in 1..2 : annotations[i].carbonBudget = 10000
  /\ estimatedMetrics.energy = 150000
  /\ Len(violations) = 3
  /\ Cardinality(OfType(violations, "carbon_budget_exceeded")) = 2
  /\ OfType(violations, "high_impact_no_annotation") = {}

\* The listeners among ls that are to receive event k of the trace tr: all of them,
\* but for "quitter" once it has received a carbon_budget_exceeded event.
Subscribed(ls, tr, k) ==
  SelectSeq(ls, LAMBDA l :
    ~(/\ l = "quitter"
      /\ \E j \in 1..(k - 1) :
           /\ tr[j].type = "carbon_budget_exceeded"
           /\ \E i \in 1..Len(tr[j].got) : tr[j].got[i] = "quitter"))

\* C29: a listener added twice is registered once and receives an event once; a
\* listener that was removed receives no later event, the remaining events of the
\* call in progress included; the listeners still registered receive every event,
\* in the order of their registration.
C29_ListenersAreASet ==
  [][ Turn =>
        LET ls == LiveListeners(listeners)
        IN /\ \A i, j \in 1..Len(ls) : ls[i] = ls[j] => i = j
           /\ \A k \in 1..Len(trace') : trace'[k].got = Subscribed(ls, trace', k)
           /\ lastOp'.op = "removeEventListener" =>
                LiveListeners(listeners') = SelectSeq(ls, LAMBDA l : l # lastOp'.id)
           /\ lastOp'.op = "addEventListener" =>
                LiveListeners(listeners')
                  = IF \E i \in 1..Len(ls) : ls[i] = lastOp'.id THEN ls
                    ELSE Append(ls, lastOp'.id) ]_vars

\* A context with budget 2 ended at energy 3: "quitter" received
\* carbon_budget_exceeded and removed itself, context_ended went to "observer" only.
C29_Witness ==
  /\ lastOp.op = "endContext"
  /\ Types(trace) = <<"carbon_budget_exceeded", "context_ended">>
  /\ trace[1].got = <<"quitter", "observer">>
  /\ trace[2].got = <<"observer">>
  /\ LiveListeners(listeners) = <<"observer">>

\* C30: a call of sdgFetch charges nothing when it is issued; when the wrapped fetch
\* settles, resolved or rejected, it makes one broadcast with networkCalls = 1, to
\* the contexts active at that moment, one resource_tracked event each; after it
\* the error of a rejected fetch is raised to the caller and the response of a
\* resolved one is returned.
C30_OneBroadcastPerFetch ==
  [][ /\ Turn /\ lastOp'.op = "sdgFetch" /\ lastOp'.outcome = "await" =>
           trace' = <<>> /\ metrics' = metrics /\ ~lastOp'.raised
      /\ Turn /\ lastOp'.op = "sdgFetch" /\ lastOp'.outcome # "await" =>
           /\ EventIds(trace') = MapIds(activeContexts)
           /\ \A k \in 1..Len(trace') :
                /\ trace'[k].type = "resource_tracked"
                /\ trace'[k].usage[1].networkCalls = 1
           /\ activeContexts' = activeContexts
           /\ \A id \in DOMAIN metrics :
                metrics'[id].networkCalls = metrics[id].networkCalls + 1
           /\ lastOp'.raised = (lastOp'.outcome # "fulfilled") ]_vars

\* A fetch issued at time 0 and rejected at time 1 is charged to a context that was
\* started at time 1, after the fetch was issued.
C30_Witness ==
  /\ lastOp.op = "sdgFetch" /\ lastOp.outcome = "rejected" /\ lastOp.raised
  /\ Len(trace) = 1
  /\ trace[1].usage[1].networkCalls = 1
  /\ trace[1].usage[1].energy = FetchEnergyPerMs
  /\ startTime[ContextOf(trace[1].contextId)] = 1
  /\ metrics[trace[1].contextId].networkCalls = 1

\* Callers whose partials all carry emissions = energy * 500.
NextConsistent == Calls(ConsistentUsages, PassiveListeners) \/ Tick

SpecConsistent == Init /\ [][NextConsistent]_vars

\* Callers of the registry whose listeners call back into the tracker.
NextReentrant ==
  \/ \E id \in ExplicitIds : StartContext(id, "o1")
  \/ \E id \in ExplicitIds : EndContext(id)
  \/ Broadcast([NoUsage EXCEPT !.networkCalls = 1])
  \/ \E l \in ReentrantListeners : AddEventListener(l)
  \/ \E l \in ReentrantListeners : RemoveEventListener(l)

InitReentrant == InitWith(MaxOpsReentrant)

SpecReentrant == InitReentrant /\ [][NextReentrant]_vars

\* Callers of the registry that keep what it hands out: a listener that keeps the
\* totalMetrics of an event and a caller that changes the map it was returned.
NextSnapshot ==
  \/ \E id \in ExplicitIds, o \in {"o1", ZeroBudgetObj} : StartContext(id, o)
  \/ \E id \in ExplicitIds : EndContext(id)
  \/ \E id \in ExplicitIds, u \in Usages : TrackResource(id, u)
  \/ AddEventListener("keeper")
  \/ \E id \in ExplicitIds, delete \in BOOLEAN : MutateReturnedMap(id, delete)

InitSnapshot == InitWith(MaxOpsSnapshot)

SpecSnapshot == InitSnapshot /\ [][NextSnapshot]_vars

MaxOpsFrame == 4

\* The partial of calculateEmissions in examples/climate-data.ts: a computeComplexity
\* and an energy.
ComplexityUsage == [NoUsage EXCEPT !.computeComplexity = 5, !.energy = 1]

\* Callers of the registry whose partials may carry a computeComplexity.
NextFrame ==
  \/ \E id \in ExplicitIds, o \in Objs : StartContext(id, o)
  \/ \E id \in ExplicitIds : EndContext(id)
  \/ \E id \in ExplicitIds, u \in Usages \cup {ComplexityUsage} : TrackResource(id, u)
  \/ \E l \in PassiveListeners : AddEventListener(l)

InitFrame == InitWith(MaxOpsFrame)

SpecFrame == InitFrame /\ [][NextFrame]_vars

\* Callers of the registry with a listener that ends the context of the teardown
\* events it receives.
NextNested ==
  \/ \E id \in ExplicitIds, o \in Objs : StartContext(id, o)
  \/ \E id \in ExplicitIds : EndContext(id)
  \/ \E id \in ExplicitIds : TrackResource(id, [NoUsage EXCEPT !.energy = 3])
  \/ \E l \in {"finisher", "observer"} : AddEventListener(l)

InitNested == InitWith(MaxOpsNested)

SpecNested == InitNested /\ [][NextNested]_vars

\* Callers of the registry with a listener that charges the context of the
\* context_ended events it receives.
NextLate ==
  \/ \E id \in ExplicitIds, o \in Objs : StartContext(id, o)
  \/ \E id \in ExplicitIds : EndContext(id)
  \/ \E id \in ExplicitIds : TrackResource(id, [NoUsage EXCEPT !.energy = 3])
  \/ Broadcast([NoUsage EXCEPT !.networkCalls = 1])
  \/ \E l \in {"latecomer", "observer"} : AddEventListener(l)

InitLate == InitWith(MaxOpsLate)

SpecLate == InitLate /\ [][NextLate]_vars

\* Callers of the registry that add and remove listeners, one of which removes itself
\* during a dispatch.
NextListeners ==
  \/ \E id \in ExplicitIds : StartContext(id, "o2")
  \/ \E id \in ExplicitIds : EndContext(id)
  \/ \E id \in ExplicitIds : TrackResource(id, [NoUsage EXCEPT !.energy = 3])
  \/ \E l \in {"quitter", "observer"} : AddEventListener(l)
  \/ \E l \in {"quitter", "observer"} : RemoveEventListener(l)

InitListeners == InitWith(MaxOpsListeners)

SpecListeners == InitListeners /\ [][NextListeners]_vars

====
